---- MODULE Spec2Model ----
(***************************************************************************)
(* A model of the pump.fun deployment / trade pipeline of turnip:          *)
(* PumpPortalClient (src/src/solana/pumpportal.ts) and the TurnipAgent     *)
(* entry points that forward to it (src/unnamed/part_007).                 *)
(*                                                                         *)
(* Every async method is cut at its awaits: one action starts the call and *)
(* runs to the first await, and one action per awaited reply (upload,      *)
(* build, broadcast, confirm) runs the continuation up to the next await   *)
(* or to the return.  The replies of the remote services are the inputs,   *)
(* drawn from small sets.  JavaScript is single threaded, so continuations *)
(* of concurrent invocations interleave only at the awaits.                *)
(***************************************************************************)
EXTENDS Integers, Sequences, FiniteSets, TLC

(* ------------------------------ bounds -------------------------------- *)

\* Number of pipeline invocations issued on the one client.
MaxInv == 2
\* Caller-supplied numbers range over -1 .. MaxNum (and NaN).
MaxNum == 1

Invs == 1..MaxInv

(* ------------------------- JavaScript values -------------------------- *)

\* A value of type `number | undefined`.
Undef == [k |-> "undefined", v |-> 0]
NaN == [k |-> "NaN", v |-> 0]
Num(n) == [k |-> "number", v |-> n]

JsNumbers == {Num(n) : n \in (0 - 1)..MaxNum} \cup {NaN}
OptNumbers == JsNumbers \cup {Undef}

\* ToBoolean of a `number | undefined`: undefined, 0 and NaN are falsy.
Falsy(x) == x.k = "undefined" \/ x.k = "NaN" \/ (x.k = "number" /\ x.v = 0)

\* `x || d`
OrElse(x, d) == IF Falsy(x) THEN d ELSE x

\* `x ?? d`
Nullish(x, d) == IF x.k = "undefined" THEN d ELSE x

\* A default that replaces every falsy argument, as `slippage || 10` would.
DefaultParamFalsy(x, d) == IF Falsy(x) THEN d ELSE x

\* A parameter with a default value, `slippage: number = 10`.
DefaultParam(x, d) == IF x.k = "undefined" THEN d ELSE x

\* A thrown value: an Error with a message, or something that is no Error.
Error(m) == [isError |-> TRUE, message |-> m]
NonError == [isError |-> FALSE, message |-> ""]

\* A response body of the trade-construction endpoint (response.data).
BodyNull == [k |-> "null", s |-> ""]
Body(s) == [k |-> "string", s |-> s]
EmptyBody == Body("")
GarbageBody == Body("bm90LWEtdHJhbnNhY3Rpb24=")
ForeignTxBody == Body("dHgtZm9yLWFub3RoZXItc2lnbmVy")
ValidTxBody == Body("dHg=")
Bodies == {BodyNull, EmptyBody, GarbageBody, ForeignTxBody, ValidTxBody}

\* `!response.data`
FalsyBody(d) == d.k = "null" \/ d.s = ""
\* Buffer.from(data, 'base64') throws a TypeError on a non-string.
Decodable(d) == d.k = "string"
\* VersionedTransaction.deserialize throws on bytes that are no transaction.
Deserializable(d) == d \in {ForeignTxBody, ValidTxBody}
\* tx.sign throws when a keypair is not a required signer of the message.
Signable(d) == d = ValidTxBody

(* ----------------------------- constants ------------------------------ *)

DefaultSlippage == 10
DefaultDevBuy == 0
\* maxRetries: 3
MaxRetries == 3
PumpBase == "https://pump.fun/"
PriorityFee == "0.0005"
Pool == "pump"

WalletAddress == "WalletPubkey"

\* Private keys a client may be constructed from: a base58 string of a
\* 64-byte secret key, a string with characters outside the base58 alphabet,
\* and a base58 string of the wrong length.
ValidKey == "5Jd7validSecretKey"
NonBase58Key == "0OIl-not-base58"
ShortKey == "abc"
PrivateKeys == {ValidKey, NonBase58Key, ShortKey}

\* bs58.decode(config.privateKey) throws on a character outside the alphabet.
Base58Decodes(key) == key # NonBase58Key
\* Keypair.fromSecretKey(secretKey) throws on a key that is not 64 bytes.
DerivesKeypair(key) == key = ValidKey

\* A constructor whose catch block swallows the error.
ConstructorNeverThrows(key) == FALSE

\* The constructor's try/catch: any failure of decoding or derivation is
\* rethrown as Error('Invalid wallet private key. Must be base58 encoded.').
ConstructorThrows(key) == ~Base58Decodes(key) \/ ~DerivesKeypair(key)

\* new PumpPortalClient({connection, privateKey}): the instance, if any.
Construct(key) ==
    IF ConstructorThrows(key)
    THEN [instance |-> "none", wallet |-> ""]
    ELSE [instance |-> "ready",
          wallet |-> IF Base58Decodes(key) /\ DerivesKeypair(key) THEN WalletAddress ELSE ""]

\* Keypair.generate(): the n-th generated keypair, and its base58 address.
MintAddr(n) == "Mint" \o ToString(n)
\* The signature the node returns for the n-th transaction it accepts.
SigOf(n) == "Sig" \o ToString(n)

(* ------------------------------- inputs ------------------------------- *)

Metadata1 == [name |-> "Cosmic Turnip", symbol |-> "CTRNP", description |-> "art"]
Metadatas == {Metadata1}

\* metadataUri values an upload response may carry ("" is an empty one).
Uris == {"ipfs://a", "ipfs://b"}
UploadDatas == {[metadataUri |-> u] : u \in Uris \cup {""}} \cup {[error |-> "bad request"]}

TargetMints == {"TokenX"}

\* On-chain errors of a confirmation (JSON.stringify of value.err).
ChainErrs == {"{\"InstructionError\":[0,\"Custom\"]}"}

Thrown(m) == {Error(m), NonError}

UploadOutcomes ==
    {[t |-> "throw", err |-> e] : e \in Thrown("Request failed with status code 500")}
        \cup {[t |-> "reply", data |-> d] : d \in UploadDatas}
BuildOutcomes ==
    {[t |-> "throw", err |-> e] : e \in Thrown("Request failed with status code 400")}
        \cup {[t |-> "reply", data |-> d] : d \in Bodies}
BroadcastOutcomes ==
    {[t |-> "throw", err |-> e] : e \in Thrown("failed to send transaction")}
        \cup {[t |-> "reply"]}
ConfirmOutcomes ==
    {[t |-> "throw", err |-> e] : e \in Thrown("Transaction was not confirmed")}
        \cup {[t |-> "reply", err |-> "null"]}
        \cup {[t |-> "reply", err |-> c] : c \in ChainErrs}

(* ------------------------------- state -------------------------------- *)

VARIABLES
    privateKey,    \* config.privateKey: the string the client was constructed from
    instance,      \* "ready" once the constructor returned, "none" if it threw
    wallet,        \* this.wallet: the address of the wallet keypair ("" if none)
    config,        \* TurnipAgent.config: defaultSlippage, devBuyAmount
    kind,          \* per invocation: "none", "deploy", "buy", "sell"
    via,           \* per invocation: "client" or "agent" entry point
    pc,            \* per invocation: the await it is suspended at, or its end
    opts,          \* per invocation: the arguments PumpPortalClient received
    metadataUri,   \* local of deploy ("" while unassigned)
    mintKeypair,   \* local of deploy (0 while unassigned; else the n-th keypair)
    request,       \* body of the POST to /trade-local
    signers,       \* the array passed to tx.sign
    sendOptions,   \* the options passed to connection.sendTransaction
    signature,     \* local: the signature sendTransaction returned
    commitment,    \* the commitment passed to connection.confirmTransaction
    result,        \* the value the promise resolved with
    escaped,       \* TRUE iff the promise rejected (an exception left the call)
    calls,         \* history: the stage calls made, in order
    outcomes,      \* history: the replies the remote services gave, in order
    nextMint,      \* number of keypairs Keypair.generate() has produced
    ledger,        \* the node: signatures of the transactions it accepted
    aopts          \* per invocation: the arguments as the caller passed them
                   \* (to TurnipAgent, or to buy and sell before defaulting)

pumpVars == <<privateKey, instance, wallet, config, kind, via, pc, opts, metadataUri, mintKeypair, request,
              signers, sendOptions, signature, commitment, result, escaped, calls,
              outcomes, nextMint, ledger, aopts>>

\* TurnipAgent.launch: one call, running its deploy as invocation 1.
VARIABLES
    lpc,           \* the await launch is suspended at, or "Returned"
    lopts,         \* the LaunchOptions it was called with
    image,         \* local of launch: the GeneratedImage
    lresult,       \* the value the promise of launch resolved with
    lescaped,      \* TRUE iff the promise of launch rejected
    lcalls,        \* history: the calls launch made, in order
    genOutcome     \* history: what the image API replied

launchVars == <<lpc, lopts, image, lresult, lescaped, lcalls, genOutcome>>

\* The parts of the program that stand beside the pipeline; each keeps the
\* fields and locals of one object or call in a record.
VARIABLES
    formData,      \* uploadMetadata: the image argument and the 'file' part
    health,        \* TurnipAgent.healthCheck: its locals, position and result
    dash,          \* Dashboard: isRunning, intervalId, the timers, the renders
    strategy,      \* AIStrategy.analyzeTrade: position, reply and result
    trader         \* HyperLiquidTrader.closePosition / placeOrder

toolVars == <<formData, health, dash, strategy, trader>>

\* The state outside PumpPortalClient.
sideVars == <<launchVars, toolVars>>

vars == <<pumpVars, sideVars>>

NoOpts == [none |-> TRUE]
NoRequest == [none |-> TRUE]
NoSendOptions == [none |-> TRUE]
NoResult == [pending |-> TRUE]
NoConfig == [defaultSlippage |-> Undef, devBuyAmount |-> Undef]
NoImage == [none |-> TRUE]
NoOutcome == [t |-> "none"]

\* launch has not been called.
LaunchInit ==
    /\ lpc = "Idle"
    /\ lopts = NoOpts
    /\ image = NoImage
    /\ lresult = NoResult
    /\ lescaped = FALSE
    /\ lcalls = <<>>
    /\ genOutcome = NoOutcome

\* uploadMetadata has not been called: nothing was appended to the form.
FormInit == formData = [appended |-> FALSE]

\* healthCheck has not been called.
HealthInit ==
    health = [pc |-> "Idle", heliusOk |-> FALSE, openaiOk |-> FALSE,
              balance |-> [num |-> 0, den |-> 1], calls |-> <<>>,
              replies |-> <<>>, escaped |-> FALSE, returned |-> 0,
              result |-> NoResult]

\* `private isRunning: boolean = false; private intervalId?: NodeJS.Timeout`
\* and the event loop around the dashboard: the live timers, the start()
\* calls awaiting their first render, the renders started by timer ticks.
\* intervalId 0 is undefined; timers are numbered as setInterval made them.
\* renders counts the renders in progress, by who began them and by the
\* await they are suspended at.  starts, skipped and lastCall are history.
DashInit ==
    dash = [isRunning |-> FALSE, intervalId |-> 0, timers |-> {},
            created |-> 0, listeners |-> 0, exited |-> FALSE,
            renders |-> [by \in {"start", "tick"} |->
                           [at \in {"balance", "tokens", "prices"} |-> 0]],
            starts |-> 0, skipped |-> FALSE, lastCall |-> "none"]

\* analyzeTrade has not been called.
StrategyInit ==
    strategy = [pc |-> "Idle", reply |-> NoOutcome, escaped |-> FALSE,
                result |-> NoResult]

\* Neither closePosition nor placeOrder has been called.
TraderInit ==
    trader = [pc |-> "Idle", op |-> "none", coin |-> "", positions |-> <<>>,
              price |-> NaN, marketData |-> NoOutcome, sent |-> <<>>,
              thrown |-> NoOutcome]

SideInit == LaunchInit /\ FormInit /\ HealthInit /\ DashInit /\ StrategyInit /\ TraderInit

Init ==
    /\ privateKey \in PrivateKeys
    /\ instance = Construct(privateKey).instance
    /\ wallet = Construct(privateKey).wallet
    /\ config = NoConfig
    /\ kind = [i \in Invs |-> "none"]
    /\ via = [i \in Invs |-> "client"]
    /\ pc = [i \in Invs |-> "Idle"]
    /\ opts = [i \in Invs |-> NoOpts]
    /\ metadataUri = [i \in Invs |-> ""]
    /\ mintKeypair = [i \in Invs |-> 0]
    /\ request = [i \in Invs |-> NoRequest]
    /\ signers = [i \in Invs |-> <<>>]
    /\ sendOptions = [i \in Invs |-> NoSendOptions]
    /\ signature = [i \in Invs |-> ""]
    /\ commitment = [i \in Invs |-> ""]
    /\ result = [i \in Invs |-> NoResult]
    /\ escaped = [i \in Invs |-> FALSE]
    /\ calls = [i \in Invs |-> <<>>]
    /\ outcomes = [i \in Invs |-> <<>>]
    /\ nextMint = 0
    /\ ledger = <<>>
    /\ aopts = [i \in Invs |-> NoOpts]
    /\ SideInit

(* ------------------- PumpPortalClient: pure parts --------------------- *)

\* A client that overwrites its wallet with the keypair it generated last.
getPublicKeyOfLastKeypair == IF nextMint = 0 THEN wallet ELSE MintAddr(nextMint)

\* getPublicKey(): this.wallet.publicKey.toBase58()
getPublicKey == wallet

\* A deploy whose dev buy falls back to a non-zero amount.
CreateAmountNonZeroDefault(devBuyAmount) == OrElse(devBuyAmount, Num(1))

\* amount: options.devBuyAmount || 0
CreateAmount(devBuyAmount) == OrElse(devBuyAmount, Num(DefaultDevBuy))

\* slippage: options.slippage || 10
CreateSlippage(slippage) == OrElse(slippage, Num(DefaultSlippage))

\* A create request that names the wallet, not the generated keypair, as mint.
CreateRequestWalletAsMint(o, uri, mint) ==
    [publicKey |-> getPublicKey,
     action |-> "create",
     tokenMetadata |-> [name |-> o.metadata.name, symbol |-> o.metadata.symbol, uri |-> uri],
     mint |-> getPublicKey,
     denominatedInSol |-> "true",
     amount |-> CreateAmount(o.devBuyAmount),
     slippage |-> CreateSlippage(o.slippage),
     priorityFee |-> PriorityFee,
     pool |-> Pool]

\* The JSON body deploy posts to /trade-local.
CreateRequest(o, uri, mint) ==
    [publicKey |-> getPublicKey,
     action |-> "create",
     tokenMetadata |-> [name |-> o.metadata.name, symbol |-> o.metadata.symbol, uri |-> uri],
     mint |-> mint,
     denominatedInSol |-> "true",
     amount |-> CreateAmount(o.devBuyAmount),
     slippage |-> CreateSlippage(o.slippage),
     priorityFee |-> PriorityFee,
     pool |-> Pool]

\* A buy request whose negative amount is replaced by 0 before sending.
BuyRequestClamped(o) ==
    [publicKey |-> getPublicKey,
     action |-> "buy",
     mint |-> o.mint,
     denominatedInSol |-> "true",
     amount |-> IF o.amount.k = "number" /\ o.amount.v < 0 THEN Num(0) ELSE o.amount,
     slippage |-> o.slippage,
     priorityFee |-> PriorityFee,
     pool |-> Pool]

\* The JSON body buy posts to /trade-local.
BuyRequest(o) ==
    [publicKey |-> getPublicKey,
     action |-> "buy",
     mint |-> o.mint,
     denominatedInSol |-> "true",
     amount |-> o.amount,
     slippage |-> o.slippage,
     priorityFee |-> PriorityFee,
     pool |-> Pool]

\* A sell request built like a buy request, its amount denominated in SOL.
SellRequestInSol(o) ==
    [publicKey |-> getPublicKey,
     action |-> "sell",
     mint |-> o.mint,
     denominatedInSol |-> "true",
     amount |-> o.amount,
     slippage |-> o.slippage,
     priorityFee |-> PriorityFee,
     pool |-> Pool]

\* The JSON body sell posts to /trade-local.
SellRequest(o) ==
    [publicKey |-> getPublicKey,
     action |-> "sell",
     mint |-> o.mint,
     denominatedInSol |-> "false",
     amount |-> o.amount,
     slippage |-> o.slippage,
     priorityFee |-> PriorityFee,
     pool |-> Pool]

\* A client that keeps one mint keypair and hands it to every deploy.
ReuseKeypair == IF nextMint = 0 THEN nextMint + 1 ELSE nextMint

\* Keypair.generate(): a keypair that no earlier call has returned (a fresh
\* random key; a collision has probability about 2^-256 and is left out).
GenerateKeypair == nextMint + 1

\* An upload check that only looks for the field, not for its content.
HasMetadataUriField(data) == "metadataUri" \in DOMAIN data

\* uploadMetadata: `if (!response.data.metadataUri) throw ...`
HasMetadataUri(data) == "metadataUri" \in DOMAIN data /\ data.metadataUri # ""

UploadError == Error("Failed to upload metadata to IPFS")
NoResponseError == Error("No response from PumpPortal API")
DecodeError == Error("The first argument must be of type string or an instance of Buffer")
DeserializeError == Error("Reached end of buffer unexpectedly")
SignError == Error("Cannot sign with non signer key")

\* No method checks the body before decoding it.
ChecksNoBody(k) == FALSE

\* `if (!response.data) throw ...`: deploy checks the body, buy and sell do not.
ChecksBody(k) == k = "deploy"

\* A continuation that swallows a signing failure and broadcasts anyway.
AfterBuildIgnoringSignFailure(k, d) ==
    IF k = "deploy" /\ FalsyBody(d)
    THEN [steps |-> <<>>, threw |-> TRUE, err |-> NoResponseError]
    ELSE IF ~Decodable(d)
    THEN [steps |-> <<"decode">>, threw |-> TRUE, err |-> DecodeError]
    ELSE IF ~Deserializable(d)
    THEN [steps |-> <<"decode", "deserialize">>, threw |-> TRUE, err |-> DeserializeError]
    ELSE [steps |-> <<"decode", "deserialize", "sign", "broadcast">>, threw |-> FALSE,
          err |-> NonError]

\* What the continuation after the build reply does before its next await:
\* the calls it makes, in order, and the error it throws, if any.
AfterBuild(k, d) ==
    IF ChecksBody(k) /\ FalsyBody(d)
    THEN [steps |-> <<>>, threw |-> TRUE, err |-> NoResponseError]
    ELSE IF ~Decodable(d)
    THEN [steps |-> <<"decode">>, threw |-> TRUE, err |-> DecodeError]
    ELSE IF ~Deserializable(d)
    THEN [steps |-> <<"decode", "deserialize">>, threw |-> TRUE, err |-> DeserializeError]
    ELSE IF ~Signable(d)
    THEN [steps |-> <<"decode", "deserialize", "sign">>, threw |-> TRUE, err |-> SignError]
    ELSE [steps |-> <<"decode", "deserialize", "sign", "broadcast">>, threw |-> FALSE,
          err |-> NonError]

\* A signer array with the mint keypair ahead of the wallet.
SignerSetMintFirst(k, mint) == IF k = "deploy" THEN <<mint, wallet>> ELSE <<wallet>>

\* The array passed to tx.sign, keypairs named by their addresses.
SignerSet(k, mint) == IF k = "deploy" THEN <<wallet, mint>> ELSE <<wallet>>

\* The options passed to connection.sendTransaction.
SendOptions(k) ==
    IF k = "deploy"
    THEN [skipPreflight |-> FALSE, preflightCommitment |-> "confirmed",
          maxRetries |-> MaxRetries]
    ELSE [skipPreflight |-> FALSE, preflightCommitment |-> "confirmed"]

\* No method looks at the confirmation it awaited.
InspectsNoConfirmation(k) == FALSE

\* `if (confirmation.value.err) throw ...`: deploy inspects the confirmation,
\* buy and sell await it and discard the value.
InspectsConfirmation(k) == k = "deploy"

ChainError(err) == Error("Transaction failed: " \o err)

\* A success record whose display URL is built from the signature.
DeploySuccessUrlFromSignature(mint, sig, uri) ==
    [success |-> TRUE,
     mint |-> mint,
     signature |-> sig,
     metadataUri |-> uri,
     pumpUrl |-> PumpBase \o sig]

\* A success record that reports a gateway URL instead of the uploaded URI.
DeploySuccessGatewayUri(mint, sig, uri) ==
    [success |-> TRUE,
     mint |-> mint,
     signature |-> sig,
     metadataUri |-> "https://ipfs.io/ipfs/" \o uri,
     pumpUrl |-> PumpBase \o mint]

\* The record deploy returns at the end of its try block.
DeploySuccess(mint, sig, uri) ==
    [success |-> TRUE,
     mint |-> mint,
     signature |-> sig,
     metadataUri |-> uri,
     pumpUrl |-> PumpBase \o mint]

\* A trade success record that also carries a display URL.
TradeSuccessWithUrl(sig) ==
    [success |-> TRUE, signature |-> sig, pumpUrl |-> PumpBase \o sig]

\* The record buy and sell return at the end of their try blocks.
TradeSuccess(sig) == [success |-> TRUE, signature |-> sig]

SuccessResult(k, mint, sig, uri) ==
    IF k = "deploy" THEN DeploySuccess(mint, sig, uri) ELSE TradeSuccess(sig)

\* A catch block that leaves a success field in the failure record.
CatchResultWithUrl(e) ==
    [success |-> FALSE, error |-> IF e.isError THEN e.message ELSE "Unknown error",
     pumpUrl |-> PumpBase]

\* A catch block that reports String(error) instead of error.message.
CatchResultStringified(e) ==
    [success |-> FALSE, error |-> IF e.isError THEN "Error: " \o e.message ELSE "Unknown error"]

\* A catch block that reads error.message of whatever was thrown.
CatchResultMessageOnly(e) == [success |-> FALSE, error |-> e.message]

\* The catch block: error instanceof Error ? error.message : 'Unknown error'
CatchResult(e) ==
    [success |-> FALSE, error |-> IF e.isError THEN e.message ELSE "Unknown error"]

\* A handler that converts Error objects only and lets other values through.
CaughtErrorsOnly(e) == e.isError

\* `try { ... } catch (error) { ... }` encloses the whole body of deploy, buy
\* and sell: it catches every value thrown inside.
Caught(e) == TRUE

(* ----------------------- PumpPortalClient: steps ---------------------- *)

\* A promise that resolves on success only and stays pending on failure.
ReturnOnSuccessOnly(i, r) ==
    /\ pc' = [pc EXCEPT ![i] = IF r.success THEN "Succeeded" ELSE "Pending"]
    /\ result' = [result EXCEPT ![i] = IF r.success THEN r ELSE @]
    /\ UNCHANGED escaped

\* The promise settles: it resolves with r.
Return(i, r) ==
    /\ pc' = [pc EXCEPT ![i] = IF r.success THEN "Succeeded" ELSE "Failed"]
    /\ result' = [result EXCEPT ![i] = r]
    /\ UNCHANGED escaped

\* A value is thrown inside the method body.
Throw(i, e) ==
    IF Caught(e)
    THEN Return(i, CatchResult(e))
    ELSE /\ pc' = [pc EXCEPT ![i] = "Failed"]
         /\ escaped' = [escaped EXCEPT ![i] = TRUE]
         /\ UNCHANGED result

Log(i, steps) == calls' = [calls EXCEPT ![i] = calls[i] \o steps]
Heard(i, stage, out) ==
    outcomes' = [outcomes EXCEPT ![i] = Append(outcomes[i], [stage |-> stage, out |-> out])]

\* deploy(options), to the await of the upload POST inside uploadMetadata.
ClientDeploy(i, o) ==
    /\ instance = "ready"
    /\ pc[i] = "Idle"
    /\ kind' = [kind EXCEPT ![i] = "deploy"]
    /\ opts' = [opts EXCEPT ![i] = o]
    /\ pc' = [pc EXCEPT ![i] = "Uploading"]
    /\ Log(i, <<"upload">>)
    /\ UNCHANGED <<wallet, privateKey, instance, config, metadataUri, mintKeypair, request, signers,
                   sendOptions, signature, commitment, result, escaped, outcomes,
                   nextMint, ledger>>

\* buy / sell, to the await of the POST to /trade-local.
ClientTrade(i, k, o) ==
    /\ instance = "ready"
    /\ pc[i] = "Idle"
    /\ kind' = [kind EXCEPT ![i] = k]
    /\ opts' = [opts EXCEPT ![i] = o]
    /\ request' = [request EXCEPT ![i] = IF k = "buy" THEN BuyRequest(o) ELSE SellRequest(o)]
    /\ pc' = [pc EXCEPT ![i] = "Building"]
    /\ Log(i, <<"build">>)
    /\ UNCHANGED <<wallet, privateKey, instance, config, metadataUri, mintKeypair, signers, sendOptions,
                   signature, commitment, result, escaped, outcomes, nextMint, ledger>>

\* buy(mint, solAmount, slippage = 10)
ClientBuy(i, mint, solAmount, slippage) ==
    ClientTrade(i, "buy", [mint |-> mint, amount |-> solAmount,
                           slippage |-> DefaultParam(slippage, Num(DefaultSlippage))])

\* sell(mint, tokenAmount, slippage = 10)
ClientSell(i, mint, tokenAmount, slippage) ==
    ClientTrade(i, "sell", [mint |-> mint, amount |-> tokenAmount,
                            slippage |-> DefaultParam(slippage, Num(DefaultSlippage))])

\* The upload POST settles: the rest of uploadMetadata, then deploy up to the
\* await of the POST to /trade-local.
UploadReturn(i, out) ==
    /\ pc[i] = "Uploading"
    /\ Heard(i, "upload", out)
    /\ IF out.t = "throw"
       THEN /\ Throw(i, out.err)
            /\ UNCHANGED <<metadataUri, mintKeypair, request, nextMint, calls>>
       ELSE IF ~HasMetadataUri(out.data)
       THEN /\ Throw(i, UploadError)
            /\ UNCHANGED <<metadataUri, mintKeypair, request, nextMint, calls>>
       ELSE /\ metadataUri' = [metadataUri EXCEPT ![i] = out.data.metadataUri]
            /\ nextMint' = GenerateKeypair
            /\ mintKeypair' = [mintKeypair EXCEPT ![i] = GenerateKeypair]
            /\ request' = [request EXCEPT ![i] =
                   CreateRequest(opts[i], out.data.metadataUri, MintAddr(GenerateKeypair))]
            /\ pc' = [pc EXCEPT ![i] = "Building"]
            /\ Log(i, <<"build">>)
            /\ UNCHANGED <<result, escaped>>
    /\ UNCHANGED <<sideVars, wallet, privateKey, instance, config, kind, via, opts, signers, sendOptions, signature,
                   commitment, ledger, aopts>>

\* The POST to /trade-local settles: check, decode, deserialize, sign, and
\* the call of sendTransaction, up to its await.
BuildReturn(i, out) ==
    /\ pc[i] = "Building"
    /\ Heard(i, "build", out)
    /\ IF out.t = "throw"
       THEN /\ Throw(i, out.err)
            /\ UNCHANGED <<signers, sendOptions, calls>>
       ELSE LET a == AfterBuild(kind[i], out.data)
                signing == "sign" \in {a.steps[n] : n \in 1..Len(a.steps)}
            IN  /\ Log(i, a.steps)
                /\ signers' = [signers EXCEPT ![i] =
                       IF signing THEN SignerSet(kind[i], MintAddr(mintKeypair[i])) ELSE @]
                /\ IF a.threw
                   THEN Throw(i, a.err) /\ UNCHANGED sendOptions
                   ELSE /\ sendOptions' = [sendOptions EXCEPT ![i] = SendOptions(kind[i])]
                        /\ pc' = [pc EXCEPT ![i] = "Broadcasting"]
                        /\ UNCHANGED <<result, escaped>>
    /\ UNCHANGED <<sideVars, wallet, privateKey, instance, config, kind, via, opts, metadataUri, mintKeypair, request,
                   signature, commitment, nextMint, ledger, aopts>>

\* A continuation that calls sendTransaction again when it throws, until the
\* budget of MaxRetries calls is used up.
BroadcastReturnRetrying(i, out) ==
    /\ pc[i] = "Broadcasting"
    /\ Heard(i, "broadcast", out)
    /\ IF out.t = "throw"
       THEN IF Cardinality({n \in 1..Len(calls[i]) : calls[i][n] = "broadcast"}) < MaxRetries
            THEN /\ Log(i, <<"broadcast">>)
                 /\ UNCHANGED <<pc, result, escaped, signature, commitment, ledger>>
            ELSE /\ Throw(i, out.err)
                 /\ UNCHANGED <<signature, commitment, calls, ledger>>
       ELSE /\ ledger' = Append(ledger, [inv |-> i, sig |-> SigOf(Len(ledger) + 1)])
            /\ signature' = [signature EXCEPT ![i] = SigOf(Len(ledger) + 1)]
            /\ commitment' = [commitment EXCEPT ![i] = "confirmed"]
            /\ pc' = [pc EXCEPT ![i] = "Confirming"]
            /\ Log(i, <<"confirm">>)
            /\ UNCHANGED <<result, escaped>>
    /\ UNCHANGED <<sideVars, wallet, privateKey, instance, config, kind, via, opts, metadataUri, mintKeypair, request,
                   signers, sendOptions, nextMint, aopts>>

\* A client with a lock per mint: a broadcast settles only when no earlier
\* invocation for the same mint is still broadcasting.
BroadcastReturnInTurn(i, out) ==
    /\ pc[i] = "Broadcasting"
    /\ \A j \in Invs :
           (j < i /\ pc[j] = "Broadcasting") => request[j].mint # request[i].mint
    /\ Heard(i, "broadcast", out)
    /\ IF out.t = "throw"
       THEN /\ Throw(i, out.err)
            /\ UNCHANGED <<signature, commitment, calls, ledger>>
       ELSE /\ ledger' = Append(ledger, [inv |-> i, sig |-> SigOf(Len(ledger) + 1)])
            /\ signature' = [signature EXCEPT ![i] = SigOf(Len(ledger) + 1)]
            /\ commitment' = [commitment EXCEPT ![i] = "confirmed"]
            /\ pc' = [pc EXCEPT ![i] = "Confirming"]
            /\ Log(i, <<"confirm">>)
            /\ UNCHANGED <<result, escaped>>
    /\ UNCHANGED <<sideVars, wallet, privateKey, instance, config, kind, via, opts, metadataUri, mintKeypair, request,
                   signers, sendOptions, nextMint, aopts>>

\* sendTransaction settles: on a signature, the call of confirmTransaction.
BroadcastReturn(i, out) ==
    /\ pc[i] = "Broadcasting"
    /\ Heard(i, "broadcast", out)
    /\ IF out.t = "throw"
       THEN /\ Throw(i, out.err)
            /\ UNCHANGED <<signature, commitment, calls, ledger>>
       ELSE /\ ledger' = Append(ledger, [inv |-> i, sig |-> SigOf(Len(ledger) + 1)])
            /\ signature' = [signature EXCEPT ![i] = SigOf(Len(ledger) + 1)]
            /\ commitment' = [commitment EXCEPT ![i] = "confirmed"]
            /\ pc' = [pc EXCEPT ![i] = "Confirming"]
            /\ Log(i, <<"confirm">>)
            /\ UNCHANGED <<result, escaped>>
    /\ UNCHANGED <<sideVars, wallet, privateKey, instance, config, kind, via, opts, metadataUri, mintKeypair, request,
                   signers, sendOptions, nextMint, aopts>>

\* A confirmation step that submits the signed transaction again when the
\* confirmation call throws.
ConfirmReturnRebroadcasting(i, out) ==
    /\ pc[i] = "Confirming"
    /\ Heard(i, "confirm", out)
    /\ IF out.t = "throw"
       THEN /\ Log(i, <<"broadcast">>)
            /\ pc' = [pc EXCEPT ![i] = "Broadcasting"]
            /\ UNCHANGED <<result, escaped>>
       ELSE /\ UNCHANGED calls
            /\ IF InspectsConfirmation(kind[i]) /\ out.err # "null"
               THEN Throw(i, ChainError(out.err))
               ELSE Return(i, SuccessResult(kind[i], MintAddr(mintKeypair[i]), signature[i],
                                            metadataUri[i]))
    /\ UNCHANGED <<sideVars, wallet, privateKey, instance, config, kind, via, opts, metadataUri, mintKeypair, request,
                   signers, sendOptions, signature, commitment, nextMint, ledger,
                   aopts>>

\* A client that keeps the mint keypair and the signature in fields of the
\* instance, shared by all invocations, and reads them back at the end.
ConfirmReturnSharedFields(i, out) ==
    /\ pc[i] = "Confirming"
    /\ Heard(i, "confirm", out)
    /\ IF out.t = "throw"
       THEN Throw(i, out.err)
       ELSE IF InspectsConfirmation(kind[i]) /\ out.err # "null"
       THEN Throw(i, ChainError(out.err))
       ELSE Return(i, SuccessResult(kind[i], MintAddr(nextMint), ledger[Len(ledger)].sig,
                                    metadataUri[i]))
    /\ UNCHANGED <<sideVars, wallet, privateKey, instance, config, kind, via, opts, metadataUri, mintKeypair, request,
                   signers, sendOptions, signature, commitment, calls, nextMint, ledger,
                   aopts>>

\* A confirmation step that withdraws the transaction from the node when the
\* confirmation call throws or reports an on-chain error.
ConfirmReturnWithdrawing(i, out) ==
    /\ pc[i] = "Confirming"
    /\ Heard(i, "confirm", out)
    /\ IF out.t = "throw"
       THEN /\ Throw(i, out.err)
            /\ ledger' = SelectSeq(ledger, LAMBDA e : e.inv # i)
       ELSE IF InspectsConfirmation(kind[i]) /\ out.err # "null"
       THEN /\ Throw(i, ChainError(out.err))
            /\ ledger' = SelectSeq(ledger, LAMBDA e : e.inv # i)
       ELSE /\ Return(i, SuccessResult(kind[i], MintAddr(mintKeypair[i]), signature[i],
                                       metadataUri[i]))
            /\ UNCHANGED ledger
    /\ UNCHANGED <<sideVars, wallet, privateKey, instance, config, kind, via, opts, metadataUri, mintKeypair, request,
                   signers, sendOptions, signature, commitment, calls, nextMint,
                   aopts>>

\* A confirmation step that asks again when the confirmation call throws.
ConfirmReturnPolling(i, out) ==
    /\ pc[i] = "Confirming"
    /\ Heard(i, "confirm", out)
    /\ IF out.t = "throw"
       THEN /\ Log(i, <<"confirm">>)
            /\ UNCHANGED <<pc, result, escaped>>
       ELSE /\ UNCHANGED calls
            /\ IF InspectsConfirmation(kind[i]) /\ out.err # "null"
               THEN Throw(i, ChainError(out.err))
               ELSE Return(i, SuccessResult(kind[i], MintAddr(mintKeypair[i]), signature[i],
                                            metadataUri[i]))
    /\ UNCHANGED <<sideVars, wallet, privateKey, instance, config, kind, via, opts, metadataUri, mintKeypair, request,
                   signers, sendOptions, signature, commitment, nextMint, ledger,
                   aopts>>

\* confirmTransaction settles: the check of value.err and the return.
ConfirmReturn(i, out) ==
    /\ pc[i] = "Confirming"
    /\ Heard(i, "confirm", out)
    /\ IF out.t = "throw"
       THEN Throw(i, out.err)
       ELSE IF InspectsConfirmation(kind[i]) /\ out.err # "null"
       THEN Throw(i, ChainError(out.err))
       ELSE Return(i, SuccessResult(kind[i], MintAddr(mintKeypair[i]), signature[i],
                                    metadataUri[i]))
    /\ UNCHANGED <<sideVars, wallet, privateKey, instance, config, kind, via, opts, metadataUri, mintKeypair, request,
                   signers, sendOptions, signature, commitment, calls, nextMint, ledger,
                   aopts>>

(* ------------------------- TurnipAgent: entry ------------------------- *)

\* description: options.description || `${options.name} - AI-generated art token`
AgentDescription(description, name) ==
    IF description = "" THEN name \o " - AI-generated art token" ELSE description

\* TurnipAgent.deploy: the options it hands to PumpPortalClient.deploy.
AgentDeployOptions(ao) ==
    [metadata |-> [name |-> ao.name, symbol |-> ao.ticker,
                   description |-> AgentDescription(ao.description, ao.name)],
     devBuyAmount |-> Nullish(ao.devBuyAmount, config.devBuyAmount),
     slippage |-> Nullish(ao.slippage, config.defaultSlippage)]

\* buyToken / sellToken: slippage ?? this.config.defaultSlippage
AgentTradeSlippage(slippage) == Nullish(slippage, config.defaultSlippage)

(* ------------------------------ actions ------------------------------- *)

\* PumpPortalClient.deploy(options)
Deploy(i, o) == ClientDeploy(i, o) /\ UNCHANGED <<via, aopts, sideVars>>

\* PumpPortalClient.buy(mint, solAmount, slippage)
Buy(i, mint, solAmount, slippage) ==
    /\ ClientBuy(i, mint, solAmount, slippage)
    /\ aopts' = [aopts EXCEPT ![i] = [mint |-> mint, amount |-> solAmount, slippage |-> slippage]]
    /\ UNCHANGED <<via, sideVars>>

\* PumpPortalClient.sell(mint, tokenAmount, slippage)
Sell(i, mint, tokenAmount, slippage) ==
    /\ ClientSell(i, mint, tokenAmount, slippage)
    /\ aopts' = [aopts EXCEPT ![i] = [mint |-> mint, amount |-> tokenAmount, slippage |-> slippage]]
    /\ UNCHANGED <<via, sideVars>>

\* TurnipAgent.deploy(options)
AgentDeploy(i, ao) ==
    /\ ClientDeploy(i, AgentDeployOptions(ao))
    /\ via' = [via EXCEPT ![i] = "agent"]
    /\ aopts' = [aopts EXCEPT ![i] = ao]
    /\ UNCHANGED sideVars

\* TurnipAgent.buyToken(mint, solAmount, slippage)
AgentBuy(i, mint, solAmount, slippage) ==
    /\ ClientBuy(i, mint, solAmount, AgentTradeSlippage(slippage))
    /\ via' = [via EXCEPT ![i] = "agent"]
    /\ aopts' = [aopts EXCEPT ![i] = [mint |-> mint, amount |-> solAmount, slippage |-> slippage]]
    /\ UNCHANGED sideVars

\* TurnipAgent.sellToken(mint, tokenAmount, slippage)
AgentSell(i, mint, tokenAmount, slippage) ==
    /\ ClientSell(i, mint, tokenAmount, AgentTradeSlippage(slippage))
    /\ via' = [via EXCEPT ![i] = "agent"]
    /\ aopts' = [aopts EXCEPT ![i] = [mint |-> mint, amount |-> tokenAmount, slippage |-> slippage]]
    /\ UNCHANGED sideVars

(* ------------------------- TurnipAgent.launch ------------------------- *)

\* What client.images.generate may settle with: a rejection, or a response
\* whose first data item has, or lacks, b64_json and url.
ImageDatas ==
    {[b64_json |-> "aW1hZ2U=", url |-> "https://img.example/1"],
     [b64_json |-> "aW1hZ2U="],
     [url |-> "https://img.example/1"],
     [b64_json |-> ""]}
GenerateOutcomes ==
    {[t |-> "throw", err |-> e] : e \in Thrown("OpenAI request failed")}
        \cup {[t |-> "reply", data |-> d] : d \in ImageDatas}
        \cup {[t |-> "reply"]}

LaunchInputs ==
    [prompt : {"a turnip in space"}, name : {"Cosmic Turnip"}, ticker : {"CTRNP"},
     description : {"", "art"}, devBuyAmount : {Undef, Num(1)}, slippage : {Undef}]

\* `!imageData?.b64_json`, with imageData = response.data?.[0]
HasImageData(out) ==
    /\ "data" \in DOMAIN out
    /\ "b64_json" \in DOMAIN out.data
    /\ out.data.b64_json # ""

NoImageError == Error("No image data returned from OpenAI")

\* The GeneratedImage that ImageGenerator.generate returns.
GeneratedImage(data, prompt) ==
    [url |-> IF "url" \in DOMAIN data THEN data.url ELSE "",
     base64 |-> data.b64_json,
     prompt |-> prompt]

\* The options launch hands to this.deploy.
LaunchDeployOptions(lo) ==
    [name |-> lo.name, ticker |-> lo.ticker, description |-> lo.description,
     devBuyAmount |-> lo.devBuyAmount, slippage |-> lo.slippage]

\* A launch that hands the generated image back when the deployment failed.
LaunchFailureKeepingImage(err) ==
    [success |-> FALSE, error |-> err, image |-> image]

\* launch: `return { success: false, error: ... }`
LaunchFailure(err) == [success |-> FALSE, error |-> err]

\* launch: the record returned when the deployment succeeded.
LaunchSuccess(img, lo, deployResult) ==
    [success |-> TRUE,
     image |-> [url |-> img.url, ipfsUrl |-> deployResult.metadataUri],
     token |-> [mint |-> deployResult.mint,
                name |-> lo.name,
                ticker |-> lo.ticker,
                signature |-> deployResult.signature,
                pumpUrl |-> deployResult.pumpUrl]]

\* The catch block of launch.
LaunchCatch(e) ==
    /\ lresult' = LaunchFailure(IF e.isError THEN e.message ELSE "Unknown error")
    /\ lpc' = "Returned"
    /\ UNCHANGED lescaped

\* launch(options), to the await of client.images.generate inside
\* imageGenerator.generate.
Launch(lo) ==
    /\ instance = "ready"
    /\ lpc = "Idle"
    /\ lopts' = lo
    /\ lpc' = "Generating"
    /\ lcalls' = <<"generate">>
    /\ UNCHANGED <<pumpVars, toolVars, image, lresult, lescaped, genOutcome>>

\* client.images.generate settles: the rest of generate, then launch up to
\* the await of the upload POST inside this.deploy.
GenerateReturn(out) ==
    /\ lpc = "Generating"
    /\ genOutcome' = out
    /\ IF out.t = "throw"
       THEN /\ LaunchCatch(out.err)
            /\ UNCHANGED <<pumpVars, image, lcalls>>
       ELSE IF ~HasImageData(out)
       THEN /\ LaunchCatch(NoImageError)
            /\ UNCHANGED <<pumpVars, image, lcalls>>
       ELSE /\ image' = GeneratedImage(out.data, lopts.prompt)
            /\ lcalls' = Append(lcalls, "deploy")
            /\ ClientDeploy(1, AgentDeployOptions(LaunchDeployOptions(lopts)))
            /\ via' = [via EXCEPT ![1] = "agent"]
            /\ aopts' = [aopts EXCEPT ![1] = LaunchDeployOptions(lopts)]
            /\ lpc' = "Deploying"
            /\ UNCHANGED <<lresult, lescaped>>
    /\ UNCHANGED <<lopts, toolVars>>

\* The promise of this.deploy settles: the rest of launch.
LaunchReturn ==
    /\ lpc = "Deploying"
    /\ pc[1] \in {"Succeeded", "Failed"}
    /\ IF escaped[1]
       THEN LaunchCatch(NonError)
       ELSE /\ lresult' = IF result[1].success
                          THEN LaunchSuccess(image, lopts, result[1])
                          ELSE LaunchFailure(result[1].error)
            /\ lpc' = "Returned"
            /\ UNCHANGED lescaped
    /\ UNCHANGED <<pumpVars, toolVars, lopts, image, lcalls, genOutcome>>

(* ------------------- uploadMetadata: the image part ------------------- *)

\* Images are at most MaxBytes bytes long.
MaxBytes == 4

\* The byte values images are made of.
ByteValues == {0, 1, 128, 255}

Buffers == UNION {[1..n -> ByteValues] : n \in 0..MaxBytes}

\* The base64 alphabet; a string is a sequence of its characters.
Alphabet ==
    <<"A", "B", "C", "D", "E", "F", "G", "H", "I", "J", "K", "L", "M",
      "N", "O", "P", "Q", "R", "S", "T", "U", "V", "W", "X", "Y", "Z",
      "a", "b", "c", "d", "e", "f", "g", "h", "i", "j", "k", "l", "m",
      "n", "o", "p", "q", "r", "s", "t", "u", "v", "w", "x", "y", "z",
      "0", "1", "2", "3", "4", "5", "6", "7", "8", "9", "+", "/">>

Char(sextet) == Alphabet[sextet + 1]
Sextet(c) == (CHOOSE i \in DOMAIN Alphabet : Alphabet[i] = c) - 1

\* buffer.toString('base64'), as the caller (TurnipAgent.deploy passes
\* image.base64) produced the string: three bytes give four characters,
\* and a last group of one or two bytes is padded with "=".
RECURSIVE Base64Encode(_)
Base64Encode(b) ==
    IF Len(b) = 0 THEN <<>>
    ELSE IF Len(b) = 1
    THEN <<Char(b[1] \div 4), Char((b[1] % 4) * 16), "=", "=">>
    ELSE IF Len(b) = 2
    THEN <<Char(b[1] \div 4), Char((b[1] % 4) * 16 + b[2] \div 16),
           Char((b[2] % 16) * 4), "=">>
    ELSE <<Char(b[1] \div 4), Char((b[1] % 4) * 16 + b[2] \div 16),
           Char((b[2] % 16) * 4 + b[3] \div 64), Char(b[3] % 64)>>
             \o Base64Encode(SubSeq(b, 4, Len(b)))

\* The same string without its padding, which Buffer.from also accepts.
Unpadded(s) == SelectSeq(s, LAMBDA c : c # "=")

\* The characters before the first "=": decoding stops at the padding.
RECURSIVE Payload(_)
Payload(s) ==
    IF Len(s) = 0 \/ Head(s) = "=" THEN <<>>
    ELSE <<Head(s)>> \o Payload(Tail(s))

\* Four characters give three bytes; a last group of two or three
\* characters gives one or two bytes.
RECURSIVE DecodeGroups(_)
DecodeGroups(s) ==
    IF Len(s) < 2 THEN <<>>
    ELSE IF Len(s) = 2
    THEN <<Sextet(s[1]) * 4 + Sextet(s[2]) \div 16>>
    ELSE IF Len(s) = 3
    THEN <<Sextet(s[1]) * 4 + Sextet(s[2]) \div 16,
           (Sextet(s[2]) % 16) * 16 + Sextet(s[3]) \div 4>>
    ELSE <<Sextet(s[1]) * 4 + Sextet(s[2]) \div 16,
           (Sextet(s[2]) % 16) * 16 + Sextet(s[3]) \div 4,
           (Sextet(s[3]) % 4) * 64 + Sextet(s[4])>>
             \o DecodeGroups(SubSeq(s, 5, Len(s)))

\* A decoder that drops a last group of fewer than four characters.
Base64DecodeWholeGroups(s) ==
    DecodeGroups(SubSeq(Payload(s), 1, 4 * (Len(Payload(s)) \div 4)))

\* Buffer.from(s, 'base64')
Base64Decode(s) == DecodeGroups(Payload(s))

\* metadata.image: a Buffer, or a string holding base64.  `of` is not
\* part of the argument: it remembers the bytes the caller encoded.
BufferImage(b) == [t |-> "buffer", bytes |-> b, of |-> b]
StringImage(s, b) == [t |-> "string", chars |-> s, of |-> b]
ImageArgs ==
    {BufferImage(b) : b \in Buffers}
        \cup {StringImage(Base64Encode(b), b) : b \in Buffers}
        \cup {StringImage(Unpadded(Base64Encode(b)), b) : b \in Buffers}

\* `typeof metadata.image === 'string' ? Buffer.from(metadata.image,
\* 'base64') : metadata.image`
ImageBuffer(img) ==
    IF img.t = "string" THEN Base64Decode(img.chars) ELSE img.bytes

\* uploadMetadata(metadata), up to
\* formData.append('file', imageBuffer, ...).
AppendFile(img) ==
    /\ instance = "ready"
    /\ ~formData.appended
    /\ formData' = [appended |-> TRUE, image |-> img, file |-> ImageBuffer(img)]
    /\ UNCHANGED <<pumpVars, launchVars, health, dash, strategy, trader>>

(* ----------------------- TurnipAgent.healthCheck ---------------------- *)

\* healthCheck is called at most MaxChecks times, one call after another.
MaxChecks == 2

LamportsPerSol == 1000000000

\* A number kept as a quotient, so that lamports / LAMPORTS_PER_SOL is exact.
Quotient(n, d) == [num |-> n, den |-> d]
Zero == Quotient(0, 1)
\* `x > 0`
Positive(x) == x.num > 0

\* What connection.getVersion may settle with.
VersionOutcomes ==
    {[t |-> "throw", err |-> e] : e \in Thrown("fetch failed")}
        \cup {[t |-> "reply", version |-> v] : v \in {"null", "1.18.22"}}

\* What connection.getBalance may settle with: lamports, or a rejection.
BalanceOutcomes ==
    {[t |-> "throw", err |-> e] : e \in Thrown("fetch failed")}
        \cup {[t |-> "reply", lamports |-> n] : n \in {0, 1, 2 * LamportsPerSol}}

\* What the completion request of enhancePrompt may settle with.
CompletionOutcomes ==
    {[t |-> "throw", err |-> e] : e \in Thrown("401 Incorrect API key")}
        \cup {[t |-> "reply", content |-> c] : c \in {"", "a test, vivid"}}

\* HeliusClient.healthCheck: `!!version`, and false when getVersion threw.
HeliusHealthy(out) == out.t = "reply" /\ out.version # "null"

\* HeliusClient.getBalance: `balance / LAMPORTS_PER_SOL`
BalanceInSol(lamports) == Quotient(lamports, LamportsPerSol)

\* A first catch block that leaves heliusOk as the health probe set it.
HeliusCatchKeeping(h) == h

\* The catch block around the two Helius calls: `heliusOk = false`
HeliusCatch(h) == [h EXCEPT !.heliusOk = FALSE]

\* The record healthCheck returns.
HealthResult(h) ==
    [openai |-> h.openaiOk,
     helius |-> h.heliusOk,
     wallet |-> h.heliusOk /\ Positive(h.balance),
     balance |-> h.balance]

\* healthCheck(), to the await of connection.getVersion inside
\* helius.healthCheck.
HealthCheck ==
    /\ instance = "ready"
    /\ \/ health.pc = "Idle"
       \/ health.pc = "Returned" /\ health.returned < MaxChecks
    /\ health' = [health EXCEPT !.pc = "Version", !.heliusOk = FALSE,
                                !.openaiOk = FALSE, !.balance = Zero,
                                !.calls = <<"getVersion">>, !.replies = <<>>]
    /\ UNCHANGED <<pumpVars, launchVars, formData, dash, strategy, trader>>

\* getVersion settles: helius.healthCheck returns, and healthCheck goes on
\* to the balance lookup if the node is healthy, else to the OpenAI probe.
VersionReturn(out) ==
    /\ health.pc = "Version"
    /\ health' =
         IF HeliusHealthy(out)
         THEN [health EXCEPT !.heliusOk = TRUE, !.pc = "Balance",
                             !.calls = Append(@, "getBalance"),
                             !.replies = Append(@, out)]
         ELSE [health EXCEPT !.heliusOk = FALSE, !.pc = "Completion",
                             !.calls = Append(@, "enhancePrompt"),
                             !.replies = Append(@, out)]
    /\ UNCHANGED <<pumpVars, launchVars, formData, dash, strategy, trader>>

\* connection.getBalance settles: the rest of the first try block or its
\* catch block, then the call of enhancePrompt('test').
BalanceReturn(out) ==
    /\ health.pc = "Balance"
    /\ health' =
         [(IF out.t = "throw"
           THEN HeliusCatch(health)
           ELSE [health EXCEPT !.balance = BalanceInSol(out.lamports)])
          EXCEPT !.pc = "Completion",
                 !.calls = Append(@, "enhancePrompt"),
                 !.replies = Append(@, out)]
    /\ UNCHANGED <<pumpVars, launchVars, formData, dash, strategy, trader>>

\* The completion request settles: the second try block or its catch
\* block, then the return.
CompletionReturn(out) ==
    /\ health.pc = "Completion"
    /\ LET h == [health EXCEPT !.openaiOk = (out.t = "reply")]
       IN health' = [h EXCEPT !.pc = "Returned",
                              !.replies = Append(@, out),
                              !.returned = @ + 1,
                              !.result = HealthResult(h)]
    /\ UNCHANGED <<pumpVars, launchVars, formData, dash, strategy, trader>>

(* ------------------------------ Dashboard ----------------------------- *)

\* start() is called at most MaxStarts times.
MaxStarts == 2
\* At most MaxTicking renders begun by timer ticks are in progress at once.
MaxTicking == 2

\* The lookups render awaits, in order.
NextLookup(at) == IF at = "balance" THEN "tokens" ELSE "prices"

\* The renders in progress that `by` began.
InProgress(d, by) ==
    d.renders[by]["balance"] + d.renders[by]["tokens"] + d.renders[by]["prices"]

\* A timer callback that renders whether or not the dashboard is running.
TickRendersAlways(d) == TRUE

\* The timer callback: `if (this.isRunning)`
TickRenders(d) == d.isRunning

\* start(), to the await of getBalance inside the first render.
DashStart ==
    /\ instance = "ready"
    /\ ~dash.exited
    /\ dash.starts < MaxStarts
    /\ dash' = [dash EXCEPT !.isRunning = TRUE,
                            !.renders["start"]["balance"] = @ + 1,
                            !.starts = @ + 1,
                            !.lastCall = "start"]
    /\ UNCHANGED <<pumpVars, launchVars, formData, health, strategy, trader>>

\* A lookup of a render settles.  The render goes on to its next await, or
\* ends: after the price lookups, or in its catch block when the lookup
\* threw.  When the first render of a start() ends, start() goes on: it
\* sets the interval, keeps its id and registers the SIGINT listener.
LookupReturn(by, at, ok) ==
    /\ ~dash.exited
    /\ dash.renders[by][at] > 0
    /\ dash' =
         IF ok /\ at # "prices"
         THEN [dash EXCEPT !.renders[by][at] = @ - 1,
                           !.renders[by][NextLookup(at)] = @ + 1]
         ELSE IF by = "start"
         THEN [dash EXCEPT !.renders[by][at] = @ - 1,
                           !.created = @ + 1,
                           !.intervalId = dash.created + 1,
                           !.timers = @ \cup {dash.created + 1},
                           !.listeners = @ + 1]
         ELSE [dash EXCEPT !.renders[by][at] = @ - 1]
    /\ UNCHANGED <<pumpVars, launchVars, formData, health, strategy, trader>>

\* The interval of timer t elapses: its callback runs to the await of
\* getBalance inside render, or returns at once.
Tick(t) ==
    /\ ~dash.exited
    /\ t \in dash.timers
    /\ IF TickRenders(dash)
       THEN /\ InProgress(dash, "tick") < MaxTicking
            /\ dash' = [dash EXCEPT !.renders["tick"]["balance"] = @ + 1]
       ELSE dash' = [dash EXCEPT !.skipped = TRUE]
    /\ UNCHANGED <<pumpVars, launchVars, formData, health, strategy, trader>>

\* The body of stop().
Stopped(d) ==
    [d EXCEPT !.isRunning = FALSE,
              !.timers = IF d.intervalId # 0 THEN @ \ {d.intervalId} ELSE @,
              !.lastCall = "stop"]

\* stop()
DashStop ==
    /\ instance = "ready"
    /\ ~dash.exited
    /\ dash' = Stopped(dash)
    /\ UNCHANGED <<pumpVars, launchVars, formData, health, strategy, trader>>

\* SIGINT reaches a registered listener: stop(), then process.exit(0).
Sigint ==
    /\ ~dash.exited
    /\ dash.listeners > 0
    /\ dash' = [Stopped(dash) EXCEPT !.exited = TRUE]
    /\ UNCHANGED <<pumpVars, launchVars, formData, health, strategy, trader>>

(* ----------------------- AIStrategy.analyzeTrade ---------------------- *)

\* A string value, as the sequence of its characters, and null.
Str(chars) == [k |-> "string", s |-> chars]
JsNull == [k |-> "null", v |-> 0]

Digits == <<"0", "1", "2", "3", "4", "5", "6", "7", "8", "9">>
IsDigit(c) == \E i \in DOMAIN Digits : Digits[i] = c
DigitValue(c) == (CHOOSE i \in DOMAIN Digits : Digits[i] = c) - 1

\* The number a sequence of digits denotes.
RECURSIVE DigitsValue(_)
DigitsValue(s) ==
    IF Len(s) = 0 THEN 0
    ELSE 10 * DigitsValue(SubSeq(s, 1, Len(s) - 1)) + DigitValue(s[Len(s)])

\* ToNumber of a string of digits with an optional sign: the empty string
\* is 0, and a string with any other character is NaN.
StringToNumber(s) ==
    LET body == IF Len(s) > 0 /\ Head(s) = "-" THEN Tail(s) ELSE s
    IN IF Len(s) = 0 THEN Num(0)
       ELSE IF Len(body) = 0 \/ \E i \in DOMAIN body : ~IsDigit(body[i]) THEN NaN
       ELSE IF body = s THEN Num(DigitsValue(body))
       ELSE Num(0 - DigitsValue(body))

\* ToNumber, which Math.min and Math.max apply to their arguments.
ToNumber(x) ==
    IF x.k = "undefined" THEN NaN
    ELSE IF x.k = "null" THEN Num(0)
    ELSE IF x.k = "string" THEN StringToNumber(x.s)
    ELSE x

\* Math.min and Math.max: NaN if an argument is NaN.
MathMin(a, b) ==
    IF ToNumber(a).k = "NaN" \/ ToNumber(b).k = "NaN" THEN NaN
    ELSE IF ToNumber(a).v <= ToNumber(b).v THEN ToNumber(a) ELSE ToNumber(b)
MathMax(a, b) ==
    IF ToNumber(a).k = "NaN" \/ ToNumber(b).k = "NaN" THEN NaN
    ELSE IF ToNumber(a).v >= ToNumber(b).v THEN ToNumber(a) ELSE ToNumber(b)

\* `Math.max(0, Math.min(100, decision.confidence))`
Clamped(confidence) == MathMax(Num(0), MathMin(Num(100), confidence))

\* ToBoolean of a number, string, null or undefined.
Truthy(x) ==
    IF x.k = "string" THEN Len(x.s) > 0
    ELSE IF x.k = "null" THEN FALSE
    ELSE ~Falsy(x)

\* What JSON.parse may give when the model answered with an object: the
\* fields are whatever the model wrote (undefined: the field is missing).
Actions == {"BUY", "SELL", "HOLD"}
Confidences ==
    {Undef, JsNull, Num(0 - 5), Num(0), Num(70), Num(100), Num(150),
     Str(<<"8", "0">>), Str(<<"h", "i", "g", "h">>)}
StopLosses == {Undef, Num(90), Str(<<"9", "0">>)}
Decisions ==
    [action : Actions \cup {"WAIT", "undefined"},
     confidence : Confidences,
     stopLoss : StopLosses]

\* The value of response.choices[0]?.message?.content, by what JSON.parse
\* makes of it: no content, text that is no JSON, JSON that is null or a
\* number, or the JSON of an object.
Contents ==
    {[t |-> "none"], [t |-> "text"], [t |-> "null"], [t |-> "primitive"]}
        \cup {[t |-> "object", decision |-> d] : d \in Decisions}

AnalysisOutcomes ==
    {[t |-> "throw", err |-> e] : e \in Thrown("429 Rate limit reached")}
        \cup {[t |-> "reply", content |-> c] : c \in Contents}

\* The catch block of analyzeTrade: the safe default.
SafeDefault ==
    [action |-> "HOLD", confidence |-> Num(0),
     reasoning |-> "AI analysis failed, defaulting to HOLD for safety"]

\* Lines 79-103 throw: on no content; on text JSON.parse rejects; on null,
\* whose fields cannot be read; on a primitive, to which strict mode
\* assigns no field; and on a stop loss that has no toFixed.
SanitizeThrows(c) ==
    \/ c.t \in {"none", "text", "null", "primitive"}
    \/ /\ c.t = "object"
       /\ c.decision.action \in {"BUY", "SELL"}
       /\ Truthy(c.decision.stopLoss)
       /\ c.decision.stopLoss.k # "number"

\* The decision with its action and confidence sanitized (lines 86-89).
Sanitized(d) ==
    [d EXCEPT !.action = IF @ \in Actions THEN @ ELSE "HOLD",
              !.confidence = Clamped(@)]

\* analyzeTrade(symbol, marketData, ...), to the await of the completion
\* request; with no market data the prompt cannot be built, and the catch
\* block returns at once.
AnalyzeTrade(hasMarketData) ==
    /\ strategy.pc = "Idle"
    /\ strategy' =
         IF hasMarketData
         THEN [strategy EXCEPT !.pc = "Requesting"]
         ELSE [strategy EXCEPT !.pc = "Returned", !.result = SafeDefault]
    /\ UNCHANGED <<pumpVars, launchVars, formData, health, dash, trader>>

\* The completion request settles: the rest of analyzeTrade.
AnalysisReturn(out) ==
    /\ strategy.pc = "Requesting"
    /\ strategy' =
         [strategy EXCEPT
            !.pc = "Returned",
            !.reply = out,
            !.result = IF out.t = "throw" \/ SanitizeThrows(out.content)
                       THEN SafeDefault
                       ELSE Sanitized(out.content.decision)]
    /\ UNCHANGED <<pumpVars, launchVars, formData, health, dash, trader>>

(* -------------------------- HyperLiquidTrader ------------------------- *)

\* this.assets, and the coins an account may hold a position in.
Assets == <<"BTC", "ETH">>
Coins == {"BTC", "DOGE"}

\* The longest prefix of digits of a string.
RECURSIVE DigitPrefix(_)
DigitPrefix(s) ==
    IF Len(s) = 0 \/ ~IsDigit(Head(s)) THEN <<>>
    ELSE <<Head(s)>> \o DigitPrefix(Tail(s))

RECURSIVE Pow10(_)
Pow10(n) == IF n = 0 THEN 1 ELSE 10 * Pow10(n - 1)

\* parseFloat: an optional sign, digits, and digits after a point; what
\* follows is ignored, and a string that starts with none of these is NaN.
ParseFloat(s) ==
    LET body == IF Len(s) > 0 /\ Head(s) = "-" THEN Tail(s) ELSE s
        int == DigitPrefix(body)
        rest == SubSeq(body, Len(int) + 1, Len(body))
        frac == IF Len(rest) > 0 /\ Head(rest) = "." THEN DigitPrefix(Tail(rest)) ELSE <<>>
        magnitude == DigitsValue(int \o frac)
    IN IF Len(int) + Len(frac) = 0 THEN NaN
       ELSE Quotient(IF body = s THEN magnitude ELSE 0 - magnitude, Pow10(Len(frac)))

IsNaN(x) == "k" \in DOMAIN x

\* Math.abs
MathAbs(x) ==
    IF IsNaN(x) THEN NaN
    ELSE Quotient(IF x.num < 0 THEN 0 - x.num ELSE x.num, x.den)

\* The decimal digits of a natural number.
RECURSIVE DigitsOf(_)
DigitsOf(n) ==
    IF n < 10 THEN <<Digits[n + 1]>>
    ELSE DigitsOf(n \div 10) \o <<Digits[(n % 10) + 1]>>

\* A quotient over a power of ten without trailing zeros in its fraction.
RECURSIVE Reduced(_)
Reduced(x) ==
    IF x.den > 1 /\ x.num % 10 = 0
    THEN Reduced(Quotient(x.num \div 10, x.den \div 10))
    ELSE x

\* The digits of n, with zeros in front up to the given width.
RECURSIVE ZeroPadded(_, _)
ZeroPadded(digits, width) ==
    IF Len(digits) >= width THEN digits ELSE ZeroPadded(<<"0">> \o digits, width)

\* Number.prototype.toString of a number that is no negative.
NumberToString(x) ==
    IF IsNaN(x) THEN <<"N", "a", "N">>
    ELSE LET r == Reduced(x)
         IN IF r.den = 1 THEN DigitsOf(r.num)
            ELSE DigitsOf(r.num \div r.den) \o <<".">>
                   \o ZeroPadded(DigitsOf(r.num % r.den), Len(DigitsOf(r.den)) - 1)

\* The signed sizes (szi) of open positions: long or short, never zero.
Sizes == {<<"2">>, <<"-", "2">>, <<"0", ".", "5", "0">>, <<"-", "1", "0", ".", "0", "5">>}
Positions == [coin : Coins, szi : Sizes]

\* What the clearinghouseState request may settle with: a rejection, no
\* data, a state without assetPositions, or a state with a list of them.
AccountOutcomes ==
    {[t |-> "throw", err |-> e] : e \in Thrown("Network Error")}
        \cup {[t |-> "reply", data |-> "null"], [t |-> "reply", data |-> "state"]}
        \cup {[t |-> "reply", data |-> "state", assetPositions |-> ps] :
                ps \in {<<>>} \cup {<<p>> : p \in Positions}
                     \cup {<<p, q>> : p, q \in Positions}}

\* What the allMids request may settle with: the mid price of the coin as
\* a string, or no entry for it.
MidsOutcomes ==
    {[t |-> "throw", err |-> e] : e \in Thrown("Network Error")}
        \cup {[t |-> "reply"], [t |-> "reply", mid |-> <<"9", "7", ".", "5">>]}

\* What the candleSnapshot request may settle with.
CandlesOutcomes ==
    {[t |-> "throw", err |-> e] : e \in Thrown("Network Error")}
        \cup {[t |-> "reply", candles |-> n] : n \in {0, 1}}

ExchangeOutcomes ==
    {[t |-> "throw", err |-> e] : e \in Thrown("Request failed with status code 422")}
        \cup {[t |-> "reply"]}

\* getPositions: `accountInfo.assetPositions || []`, and [] when
\* getAccountInfo gave null.
PositionsOf(out) ==
    IF out.t = "reply" /\ "assetPositions" \in DOMAIN out
    THEN out.assetPositions ELSE <<>>

\* positions.find(p => p.position.coin === coin): the index, 0 if none.
FindPosition(ps, coin) ==
    IF \E i \in DOMAIN ps : ps[i].coin = coin
    THEN CHOOSE i \in DOMAIN ps :
            ps[i].coin = coin /\ \A j \in 1..(i - 1) : ps[j].coin # coin
    ELSE 0

\* this.assets.findIndex(a => a.name === coin)
AssetIndex(coin) ==
    IF \E i \in DOMAIN Assets : Assets[i] = coin
    THEN (CHOOSE i \in DOMAIN Assets : Assets[i] = coin) - 1
    ELSE 0 - 1

\* Closing parameters that keep the side of the position.
ClosingParamsSameSide(coin, szi, price) ==
    [coin |-> coin,
     isLong |-> Positive(ParseFloat(szi)),
     price |-> NumberToString(price),
     size |-> NumberToString(MathAbs(ParseFloat(szi))),
     reduceOnly |-> TRUE]

\* The parameters closePosition hands to placeOrder.
ClosingParams(coin, szi, price) ==
    [coin |-> coin,
     isLong |-> ~Positive(ParseFloat(szi)),
     price |-> NumberToString(price),
     size |-> NumberToString(MathAbs(ParseFloat(szi))),
     reduceOnly |-> TRUE]

\* The order placeOrder builds from its parameters.
Order(params) ==
    [a |-> AssetIndex(params.coin), b |-> params.isLong, p |-> params.price,
     s |-> params.size, r |-> params.reduceOnly, tif |-> "Gtc"]

\* placeOrder(params), to the await of the POST to /exchange, or to its
\* throw when the coin is no asset.
PlaceOrderFrom(t, params) ==
    IF AssetIndex(params.coin) = 0 - 1
    THEN [t EXCEPT !.pc = "Thrown",
                   !.thrown = Error("Asset not found")]
    ELSE [t EXCEPT !.pc = "Exchange",
                   !.sent = Append(@, Order(params))]

\* The parameters a caller of placeOrder passes.
OrderParams ==
    [coin : Coins, isLong : BOOLEAN, price : {<<"9", "7">>}, size : {<<"1">>},
     reduceOnly : BOOLEAN]

\* placeOrder(params), called directly.
PlaceOrder(params) ==
    /\ trader.pc = "Idle"
    /\ trader' = PlaceOrderFrom([trader EXCEPT !.op = "order", !.coin = params.coin], params)
    /\ UNCHANGED <<pumpVars, launchVars, formData, health, dash, strategy>>

\* closePosition(coin), to the await of the clearinghouseState request
\* inside getPositions.
ClosePosition(coin) ==
    /\ trader.pc = "Idle"
    /\ trader' = [trader EXCEPT !.op = "close", !.coin = coin, !.pc = "Account"]
    /\ UNCHANGED <<pumpVars, launchVars, formData, health, dash, strategy>>

\* The clearinghouseState request settles: getPositions returns, and
\* closePosition throws if the coin has no position, else goes on to the
\* await of the allMids request inside getMarketData.
AccountReturn(out) ==
    /\ trader.pc = "Account"
    /\ trader' =
         IF FindPosition(PositionsOf(out), trader.coin) = 0
         THEN [trader EXCEPT !.pc = "Thrown",
                             !.thrown = Error("No open position found")]
         ELSE [trader EXCEPT !.pc = "Mids", !.positions = PositionsOf(out)]
    /\ UNCHANGED <<pumpVars, launchVars, formData, health, dash, strategy>>

\* The allMids request settles: getMarketData goes on to the await of the
\* candleSnapshot request, or returns null from its catch block, on which
\* closePosition throws.
MidsReturn(out) ==
    /\ trader.pc = "Mids"
    /\ trader' =
         IF out.t = "throw"
         THEN [trader EXCEPT !.pc = "Thrown", !.marketData = [t |-> "null"],
                             !.thrown = Error("Could not fetch market data")]
         ELSE [trader EXCEPT !.pc = "Candles",
                             !.price = ParseFloat(IF "mid" \in DOMAIN out
                                                  THEN out.mid ELSE <<"0">>)]
    /\ UNCHANGED <<pumpVars, launchVars, formData, health, dash, strategy>>

\* The candleSnapshot request settles: getMarketData returns its record
\* or null, and closePosition throws or calls placeOrder.
CandlesReturn(out) ==
    /\ trader.pc = "Candles"
    /\ trader' =
         IF out.t = "throw"
         THEN [trader EXCEPT !.pc = "Thrown", !.marketData = [t |-> "null"],
                             !.thrown = Error("Could not fetch market data")]
         ELSE PlaceOrderFrom(
                [trader EXCEPT !.marketData = [t |-> "data", price |-> trader.price]],
                ClosingParams(trader.coin,
                              trader.positions[FindPosition(trader.positions, trader.coin)].szi,
                              trader.price))
    /\ UNCHANGED <<pumpVars, launchVars, formData, health, dash, strategy>>

\* The POST to /exchange settles: placeOrder returns or rethrows, and so
\* does closePosition.
ExchangeReturn(out) ==
    /\ trader.pc = "Exchange"
    /\ trader' =
         IF out.t = "throw"
         THEN [trader EXCEPT !.pc = "Thrown", !.thrown = out.err]
         ELSE [trader EXCEPT !.pc = "Returned"]
    /\ UNCHANGED <<pumpVars, launchVars, formData, health, dash, strategy>>

(* --------------------------- specifications --------------------------- *)

\* The replies of the remote services, to whichever invocation awaits one.
Replies(i) ==
    \/ \E out \in UploadOutcomes : UploadReturn(i, out)
    \/ \E out \in BuildOutcomes : BuildReturn(i, out)
    \/ \E out \in BroadcastOutcomes : BroadcastReturn(i, out)
    \/ \E out \in ConfirmOutcomes : ConfirmReturn(i, out)

\* Spec: MaxInv invocations on one client, overlapping in every possible way,
\* each called with its optional arguments omitted.
PlainDeployOptions ==
    {[metadata |-> m, devBuyAmount |-> Undef, slippage |-> Undef] : m \in Metadatas}

Next ==
    \E i \in Invs :
        \/ \E o \in PlainDeployOptions : Deploy(i, o)
        \/ \E m \in TargetMints : Buy(i, m, Num(1), Undef)
        \/ \E m \in TargetMints : Sell(i, m, Num(1), Undef)
        \/ Replies(i)

Spec == Init /\ [][Next]_vars

\* SpecInputs: one invocation, its arguments and the agent's configuration
\* ranging over every combination of omitted, NaN and numeric values.
Configs == [defaultSlippage : OptNumbers, devBuyAmount : OptNumbers]
DeployOptions == [metadata : Metadatas, devBuyAmount : OptNumbers, slippage : OptNumbers]
AgentDeployInputs ==
    [name : {"Cosmic Turnip"}, ticker : {"CTRNP"}, description : {"", "art"},
     devBuyAmount : OptNumbers, slippage : OptNumbers]

InitInputs ==
    /\ config \in Configs
    /\ privateKey \in PrivateKeys
    /\ instance = Construct(privateKey).instance
    /\ wallet = Construct(privateKey).wallet
    /\ kind = [i \in Invs |-> "none"]
    /\ via = [i \in Invs |-> "client"]
    /\ pc = [i \in Invs |-> "Idle"]
    /\ opts = [i \in Invs |-> NoOpts]
    /\ metadataUri = [i \in Invs |-> ""]
    /\ mintKeypair = [i \in Invs |-> 0]
    /\ request = [i \in Invs |-> NoRequest]
    /\ signers = [i \in Invs |-> <<>>]
    /\ sendOptions = [i \in Invs |-> NoSendOptions]
    /\ signature = [i \in Invs |-> ""]
    /\ commitment = [i \in Invs |-> ""]
    /\ result = [i \in Invs |-> NoResult]
    /\ escaped = [i \in Invs |-> FALSE]
    /\ calls = [i \in Invs |-> <<>>]
    /\ outcomes = [i \in Invs |-> <<>>]
    /\ nextMint = 0
    /\ ledger = <<>>
    /\ aopts = [i \in Invs |-> NoOpts]
    /\ SideInit

NextInputs ==
    \E i \in {1} :
        \/ \E o \in DeployOptions : Deploy(i, o)
        \/ \E ao \in AgentDeployInputs : AgentDeploy(i, ao)
        \/ \E m \in TargetMints, a \in JsNumbers, s \in OptNumbers : Buy(i, m, a, s)
        \/ \E m \in TargetMints, a \in JsNumbers, s \in OptNumbers : Sell(i, m, a, s)
        \/ \E m \in TargetMints, a \in JsNumbers, s \in OptNumbers : AgentBuy(i, m, a, s)
        \/ \E m \in TargetMints, a \in JsNumbers, s \in OptNumbers : AgentSell(i, m, a, s)
        \/ Replies(i)

SpecInputs == InitInputs /\ [][NextInputs]_vars

\* SpecPair: two overlapping invocations, called as in Spec.  What one
\* invocation does between its call and its result does not depend on how
\* many others there are, so the claims about a single pipeline run are
\* checked here; Spec keeps the claims about concurrent invocations.
PairInvs == Invs \cap {1, 2}

NextPair ==
    \E i \in PairInvs :
        \/ \E o \in PlainDeployOptions : Deploy(i, o)
        \/ \E m \in TargetMints : Buy(i, m, Num(1), Undef)
        \/ \E m \in TargetMints : Sell(i, m, Num(1), Undef)
        \/ Replies(i)

SpecPair == Init /\ [][NextPair]_vars

\* SpecLive: SpecPair, where every awaited external call eventually settles:
\* a reply to an invocation that awaits one is eventually delivered.
SpecLive == SpecPair /\ \A i \in PairInvs : WF_vars(Replies(i))

\* SpecLaunch: one call of TurnipAgent.launch.
NextLaunch ==
    \/ \E lo \in LaunchInputs : Launch(lo)
    \/ \E out \in GenerateOutcomes : GenerateReturn(out)
    \/ Replies(1)
    \/ LaunchReturn

SpecLaunch == Init /\ [][NextLaunch]_vars

\* SpecImage: one call of uploadMetadata with an image of either form.
NextImage == \E img \in ImageArgs : AppendFile(img)

SpecImage == Init /\ [][NextImage]_vars

\* SpecHealth: calls of TurnipAgent.healthCheck, one after another.
NextHealth ==
    \/ HealthCheck
    \/ \E out \in VersionOutcomes : VersionReturn(out)
    \/ \E out \in BalanceOutcomes : BalanceReturn(out)
    \/ \E out \in CompletionOutcomes : CompletionReturn(out)

SpecHealth == Init /\ [][NextHealth]_vars

\* SpecDash: one Dashboard, its timers and the renders in progress.
NextDash ==
    \/ DashStart
    \/ \E by \in {"start", "tick"}, at \in {"balance", "tokens", "prices"},
          ok \in BOOLEAN : LookupReturn(by, at, ok)
    \/ \E t \in 1..MaxStarts : Tick(t)
    \/ DashStop
    \/ Sigint

SpecDash == Init /\ [][NextDash]_vars

\* SpecStrategy: one call of AIStrategy.analyzeTrade.
NextStrategy ==
    \/ \E md \in BOOLEAN : AnalyzeTrade(md)
    \/ \E out \in AnalysisOutcomes : AnalysisReturn(out)

SpecStrategy == Init /\ [][NextStrategy]_vars

\* SpecTrader: one call of closePosition or of placeOrder.
NextTrader ==
    \/ \E coin \in Coins : ClosePosition(coin)
    \/ \E params \in OrderParams : PlaceOrder(params)
    \/ \E out \in AccountOutcomes : AccountReturn(out)
    \/ \E out \in MidsOutcomes : MidsReturn(out)
    \/ \E out \in CandlesOutcomes : CandlesReturn(out)
    \/ \E out \in ExchangeOutcomes : ExchangeReturn(out)

SpecTrader == Init /\ [][NextTrader]_vars

(* ------------------------- claims: vocabulary ------------------------- *)

Done(i) == pc[i] \in {"Succeeded", "Failed"}
Called(i, stage) == \E n \in 1..Len(calls[i]) : calls[i][n] = stage
HeardFrom(i, stage) == \E n \in 1..Len(outcomes[i]) : outcomes[i][n].stage = stage
\* The reply of `stage` to invocation i (each stage replies at most once).
OutcomeOf(i, stage) ==
    (CHOOSE h \in {outcomes[i][n] : n \in 1..Len(outcomes[i])} : h.stage = stage).out
Present(r, f) == f \in DOMAIN r
SuccessFields == {"mint", "signature", "metadataUri", "pumpUrl"}
IsPrefix(s, t) == Len(s) <= Len(t) /\ \A n \in 1..Len(s) : s[n] = t[n]

\* The upload failed: the HTTP call threw, or the response has no metadataUri.
UploadFailed(i) ==
    /\ HeardFrom(i, "upload")
    /\ LET out == OutcomeOf(i, "upload")
       IN  \/ out.t = "throw"
           \/ ~Present(out.data, "metadataUri")
           \/ out.data.metadataUri = ""
UploadOk(i) == HeardFrom(i, "upload") /\ ~UploadFailed(i)

\* The build failed: the HTTP call threw, or the endpoint returned no body.
BuildFailed(i) ==
    /\ HeardFrom(i, "build")
    /\ LET out == OutcomeOf(i, "build")
       IN  out.t = "throw" \/ out.data \in {BodyNull, EmptyBody}
\* The build returned a body that does not deserialize, or cannot be signed.
SignFailed(i) ==
    /\ HeardFrom(i, "build")
    /\ LET out == OutcomeOf(i, "build")
       IN  out.t = "reply" /\ out.data \in {GarbageBody, ForeignTxBody}
BuildAndSignOk(i) ==
    HeardFrom(i, "build") /\ ~BuildFailed(i) /\ ~SignFailed(i)

BroadcastFailed(i) ==
    HeardFrom(i, "broadcast") /\ OutcomeOf(i, "broadcast").t = "throw"
BroadcastOk(i) == HeardFrom(i, "broadcast") /\ ~BroadcastFailed(i)

ConfirmThrew(i) == HeardFrom(i, "confirm") /\ OutcomeOf(i, "confirm").t = "throw"
\* The confirmation came back and carries a non-null on-chain error.
ConfirmChainError(i) ==
    /\ HeardFrom(i, "confirm")
    /\ OutcomeOf(i, "confirm").t = "reply"
    /\ OutcomeOf(i, "confirm").err # "null"
ConfirmOk(i) ==
    HeardFrom(i, "confirm") /\ ~ConfirmThrew(i) /\ ~ConfirmChainError(i)

\* Some stage of invocation i threw.
StageThrew(i) ==
    UploadFailed(i) \/ BuildFailed(i) \/ SignFailed(i) \/ BroadcastFailed(i)
        \/ ConfirmThrew(i)

\* The signature the node returned to invocation i.
BroadcastSignature(i) ==
    (CHOOSE e \in {ledger[n] : n \in 1..Len(ledger)} : e.inv = i).sig

(* ------------------------------- claims ------------------------------- *)

\* C1: a deploy whose upload, build, sign, broadcast and confirm all succeed
\* (no on-chain error) returns success=true, a non-empty mint, a non-empty
\* signature equal to the one the broadcast returned, and
\* pumpUrl = "https://pump.fun/" followed by that mint.
C1_DeploySuccessRecord ==
    \A i \in Invs :
        (kind[i] = "deploy" /\ UploadOk(i) /\ BuildAndSignOk(i) /\ BroadcastOk(i)
            /\ ConfirmOk(i))
        => /\ pc[i] = "Succeeded"
           /\ result[i].success = TRUE
           /\ Present(result[i], "mint") /\ result[i].mint # ""
           /\ Present(result[i], "signature") /\ result[i].signature # ""
           /\ result[i].signature = BroadcastSignature(i)
           /\ Present(result[i], "pumpUrl")
           /\ result[i].pumpUrl = "https://pump.fun/" \o result[i].mint

C1_Witness ==
    \E i \in Invs :
        /\ kind[i] = "deploy" /\ UploadOk(i) /\ BuildAndSignOk(i) /\ BroadcastOk(i)
        /\ ConfirmOk(i)
        /\ pc[i] = "Succeeded"

\* C2: every result of deploy, buy or sell is either a success record
\* (success=true, its success fields set: the signature, and for deploy also
\* mint, metadataUri and pumpUrl) without an error field, or a failure record
\* (success=false, error set) without mint, signature, metadataUri, pumpUrl.
IsSuccessRecord(k, r) ==
    /\ r.success = TRUE
    /\ ~Present(r, "error")
    /\ Present(r, "signature") /\ r.signature # ""
    /\ k = "deploy" => SuccessFields \subseteq DOMAIN r
IsFailureRecord(r) ==
    /\ r.success = FALSE
    /\ Present(r, "error")
    /\ SuccessFields \cap DOMAIN r = {}

C3_NoExceptionEscapes ==
    \A i \in Invs :
        /\ ~escaped[i]
        /\ StageThrew(i) => /\ pc[i] = "Failed"
                            /\ Present(result[i], "success") /\ result[i].success = FALSE
                            /\ Present(result[i], "error")

C3_Witness ==
    \E i \in Invs :
        /\ kind[i] = "buy" /\ BroadcastFailed(i)
        /\ ~OutcomeOf(i, "broadcast").err.isError
        /\ pc[i] = "Failed"

\* C4: if the metadata upload of a deploy fails, the trade-construction
\* request, the deserialization / signing and the broadcast are never
\* invoked in that invocation, and the result is a failure.
C4_UploadFailureStops ==
    \A i \in Invs :
        (kind[i] = "deploy" /\ UploadFailed(i))
        => /\ calls[i] = <<"upload">>
           /\ request[i] = NoRequest
           /\ signers[i] = <<>>
           /\ sendOptions[i] = NoSendOptions
           /\ \A n \in 1..Len(ledger) : ledger[n].inv # i
           /\ pc[i] = "Failed"
           /\ result[i].success = FALSE

C4_Witness ==
    \E i \in Invs :
        /\ kind[i] = "deploy" /\ UploadFailed(i)
        /\ OutcomeOf(i, "upload").t = "reply"
        /\ Present(OutcomeOf(i, "upload").data, "metadataUri")
        /\ pc[i] = "Failed"

\* C5: the stages of one invocation run only in the order upload, build,
\* sign (decode, deserialize, sign), broadcast, confirm, each entered only if
\* every earlier one succeeded: after a build failure sign, broadcast and
\* confirm are never invoked, after a deserialize / sign failure broadcast
\* and confirm are never invoked, after a broadcast failure confirm is never
\* invoked.  Buy and sell follow the same rule without the upload.
TradeStages == <<"build", "decode", "deserialize", "sign", "broadcast", "confirm">>
StageOrder(k) == IF k = "deploy" THEN <<"upload">> \o TradeStages ELSE TradeStages

C6_DeployOnChainErrorFails ==
    \A i \in Invs :
        (kind[i] = "deploy" /\ BroadcastOk(i) /\ ConfirmChainError(i))
        => /\ pc[i] = "Failed"
           /\ result[i].success = FALSE
           /\ Present(result[i], "error")
           /\ result[i].error = "Transaction failed: " \o OutcomeOf(i, "confirm").err
           /\ ~Present(result[i], "signature")
           /\ ~Present(result[i], "mint")

C6_Witness ==
    \E i \in Invs :
        /\ kind[i] = "deploy" /\ BroadcastOk(i) /\ ConfirmChainError(i)
        /\ signature[i] # ""
        /\ Done(i)

\* C7: in buy and in sell, if the broadcast succeeded and the confirmation
\* carries a non-null on-chain error, the call returns success=false, never
\* success=true.
C7_TradeOnChainErrorFails ==
    \A i \in Invs :
        (kind[i] \in {"buy", "sell"} /\ BroadcastOk(i) /\ ConfirmChainError(i))
        => /\ Done(i)
           /\ result[i].success = FALSE

\* C8: in a create request the slippage sent is 10 when the caller omitted
\* slippage, and exactly the caller's number when one was passed, 0 included
\* (0 is not replaced by 10).
C8_CreateSlippagePreserved ==
    \A i \in Invs :
        (kind[i] = "deploy" /\ Called(i, "build"))
        => /\ opts[i].slippage = Undef => request[i].slippage = Num(10)
           /\ opts[i].slippage.k = "number" => request[i].slippage = opts[i].slippage

C10_MintNeverReused ==
    \A i \in Invs :
        (kind[i] = "deploy" /\ Called(i, "build"))
        => /\ mintKeypair[i] # 0
           /\ request[i].mint = MintAddr(mintKeypair[i])
           /\ \A j \in Invs \ {i} :
                  (kind[j] = "deploy" /\ Called(j, "build"))
                  => /\ mintKeypair[j] # mintKeypair[i]
                     /\ request[j].mint # request[i].mint
                     /\ (pc[i] = "Succeeded" /\ pc[j] = "Succeeded")
                            => result[i].mint # result[j].mint

C10_Witness ==
    \E i, j \in Invs :
        /\ i # j
        /\ kind[i] = "deploy" /\ pc[i] = "Succeeded"
        /\ kind[j] = "deploy" /\ pc[j] = "Succeeded"

\* C11: in deploy, if the trade-construction endpoint returns an empty body,
\* the result is {success:false, error:"No response from PumpPortal API"}
\* with no signature and no mint, and neither signing (decode, deserialize,
\* sign) nor broadcast is attempted.
EmptyBuildBody(i) ==
    /\ HeardFrom(i, "build")
    /\ OutcomeOf(i, "build").t = "reply"
    /\ OutcomeOf(i, "build").data \in {BodyNull, EmptyBody}

C11_DeployEmptyBody ==
    \A i \in Invs :
        (kind[i] = "deploy" /\ EmptyBuildBody(i))
        => /\ pc[i] = "Failed"
           /\ result[i] = [success |-> FALSE, error |-> "No response from PumpPortal API"]
           /\ ~Present(result[i], "signature") /\ ~Present(result[i], "mint")
           /\ calls[i] = <<"upload", "build">>
           /\ signers[i] = <<>>
           /\ sendOptions[i] = NoSendOptions

C11_Witness ==
    \E i \in Invs :
        /\ kind[i] = "deploy"
        /\ HeardFrom(i, "build")
        /\ OutcomeOf(i, "build") = [t |-> "reply", data |-> EmptyBody]
        /\ pc[i] = "Failed"

\* C12: in buy and in sell, if the trade-construction endpoint returns no
\* body, the call fails at the build stage with the remote-build failure
\* (the same failure as in deploy), before any attempt to decode,
\* deserialize or sign a transaction.
C12_TradeEmptyBody ==
    \A i \in Invs :
        (kind[i] \in {"buy", "sell"} /\ EmptyBuildBody(i))
        => /\ pc[i] = "Failed"
           /\ result[i] = [success |-> FALSE, error |-> "No response from PumpPortal API"]
           /\ calls[i] = <<"build">>

\* C13: the signer set attached to a transaction is exactly
\* [wallet identity, mint identity], in that order, for create and exactly
\* [wallet identity] for buy and for sell; the mint identity that signs a
\* create transaction is the one whose address was sent in that invocation's
\* build request.
C13_SignerSet ==
    \A i \in Invs :
        IF Called(i, "sign")
        THEN /\ kind[i] = "deploy" => signers[i] = <<wallet, request[i].mint>>
             /\ kind[i] \in {"buy", "sell"} => signers[i] = <<wallet>>
             /\ signers[i][1] = request[i].publicKey
        ELSE signers[i] = <<>>

C13_Witness ==
    \E i, j \in Invs :
        /\ kind[i] = "deploy" /\ Called(i, "sign") /\ Len(signers[i]) = 2
        /\ kind[j] = "buy" /\ Called(j, "sign") /\ Len(signers[j]) = 1

\* The number of times invocation i called `stage`.
Count(i, stage) == Cardinality({n \in 1..Len(calls[i]) : calls[i][n] = stage})

C15_BroadcastFlags ==
    \A i \in Invs :
        /\ Called(i, "broadcast")
               => sendOptions[i] = [skipPreflight |-> FALSE,
                                    preflightCommitment |-> "confirmed",
                                    maxRetries |-> 3]
        /\ Called(i, "confirm") => commitment[i] = "confirmed"

\* C16: constructing a PumpPortalClient (and hence a TurnipAgent) with a
\* private key that fails base58 decoding or key derivation throws and
\* yields no usable instance: no deploy, buy, sell or network call is ever
\* performed through an object whose construction failed.
C16_InvalidKeyNoInstance ==
    privateKey # ValidKey
    => /\ instance = "none"
       /\ \A i \in Invs : /\ pc[i] = "Idle"
                          /\ kind[i] = "none"
                          /\ calls[i] = <<>>
                          /\ request[i] = NoRequest
       /\ ledger = <<>>

C16_Witness == privateKey = ShortKey /\ instance = "none"

LastOutcome(i) == outcomes[i][Len(outcomes[i])]

\* The failing stage of invocation i raised an Error object (a remote call
\* rejected with one, or a local step threw one).
FailedWithError(i) ==
    /\ pc[i] = "Failed"
    /\ outcomes[i] # <<>>
    /\ LastOutcome(i).out.t = "throw" => LastOutcome(i).out.err.isError

\* The message of the error the failing stage of invocation i raised, read
\* from what the remote services replied.
RaisedMessage(i) ==
    LET h == LastOutcome(i)
    IN  IF h.out.t = "throw" THEN h.out.err.message
        ELSE IF h.stage = "upload" THEN "Failed to upload metadata to IPFS"
        ELSE IF h.stage = "confirm" THEN "Transaction failed: " \o h.out.err
        ELSE IF kind[i] = "deploy" /\ h.out.data \in {BodyNull, EmptyBody}
        THEN "No response from PumpPortal API"
        ELSE IF h.out.data = BodyNull THEN DecodeError.message
        ELSE IF h.out.data \in {EmptyBody, GarbageBody} THEN DeserializeError.message
        ELSE SignError.message

\* C18: when a stage of deploy, buy or sell fails by throwing an error, the
\* error field of the returned failure result is exactly the message of the
\* error raised by that stage, unmodified, and it is the first failed stage:
\* every earlier stage replied without failing and no later stage ran.
C18_ErrorIsFirstFailureMessage ==
    \A i \in Invs :
        FailedWithError(i)
        => /\ ~escaped[i]
           /\ result[i] = [success |-> FALSE, error |-> RaisedMessage(i)]
           /\ \A n \in 1..(Len(outcomes[i]) - 1) :
                  /\ outcomes[i][n].out.t = "reply"
                  /\ outcomes[i][n].stage # LastOutcome(i).stage
           /\ LastOutcome(i).stage = "upload" => ~Called(i, "build")
           /\ LastOutcome(i).stage = "build" => ~Called(i, "broadcast")
           /\ LastOutcome(i).stage = "broadcast" => ~Called(i, "confirm")

C18_Witness ==
    \E i, j \in Invs :
        /\ FailedWithError(i) /\ LastOutcome(i).stage = "broadcast"
        /\ LastOutcome(i).out.t = "throw"
        /\ result[i].error = "failed to send transaction"
        /\ FailedWithError(j) /\ LastOutcome(j).stage = "build"
        /\ LastOutcome(j).out.t = "reply"

\* C19: in one invocation of deploy, buy or sell, the upload HTTP call, the
\* trade-construction HTTP call, the deserialize/sign step and the
\* confirmation call are each invoked at most once; a failed stage is never
\* re-run within the same invocation.
C19_StagesAtMostOnce ==
    \A i \in Invs :
        /\ \A s \in {"upload", "build", "decode", "deserialize", "sign", "confirm"} :
               Count(i, s) <= 1
        /\ Len(outcomes[i]) <= Len(calls[i])
        /\ kind[i] \in {"buy", "sell"} => Count(i, "upload") = 0
        /\ (StageThrew(i) /\ Done(i))
               => \A s \in {"upload", "build", "confirm"} :
                      Count(i, s) = (IF HeardFrom(i, s) THEN 1 ELSE 0)

C19_Witness ==
    \E i, j \in Invs :
        /\ ConfirmThrew(i) /\ Done(i) /\ Count(i, "confirm") = 1
        /\ UploadFailed(j) /\ Done(j) /\ Count(j, "upload") = 1

\* The transactions of invocation i the node accepted.
Submitted(i) == {n \in 1..Len(ledger) : ledger[n].inv = i}

\* C20: a signed transaction is submitted to the node at most once: within
\* one invocation of deploy, buy or sell the pipeline calls sendTransaction
\* at most once and never re-broadcasts, whether the broadcast was rejected,
\* the confirmation threw, or the transaction failed on chain.
C20_BroadcastAtMostOnce ==
    \A i \in Invs :
        /\ Count(i, "broadcast") <= 1
        /\ Cardinality(Submitted(i)) <= 1
        /\ Cardinality(Submitted(i)) <= Count(i, "broadcast")
        /\ Count(i, "broadcast") <= Count(i, "sign")

C20_Witness ==
    \E i, j \in Invs :
        /\ pc[i] = "Failed" /\ ConfirmThrew(i)
        /\ Count(i, "broadcast") = 1 /\ Cardinality(Submitted(i)) = 1
        /\ pc[j] = "Failed" /\ BroadcastFailed(j)
        /\ Count(j, "broadcast") = 1 /\ Submitted(j) = {}

\* Everything invocation i holds: its arguments, locals, calls and result.
Local(i) ==
    <<kind[i], via[i], pc[i], opts[i], aopts[i], metadataUri[i], mintKeypair[i],
      request[i], signers[i], sendOptions[i], signature[i], commitment[i],
      result[i], escaped[i], calls[i], outcomes[i]>>

\* C21: for any interleaving of concurrent invocations on one client, each
\* result is built only from values of its own stages: the metadata URI its
\* own upload returned, the mint it sent in its own create request, and the
\* signature the node returned to its own broadcast; concurrent deploys never
\* share a mint, no two results carry the same signature, and a step of one
\* invocation leaves every other invocation's state as it was.
C21_InvocationsIndependent ==
    /\ [](\A i \in Invs :
            pc[i] = "Succeeded"
            => /\ result[i].signature = BroadcastSignature(i)
               /\ \A j \in Invs \ {i} :
                      pc[j] = "Succeeded" => result[j].signature # result[i].signature
               /\ kind[i] = "deploy"
                      => /\ result[i].metadataUri = OutcomeOf(i, "upload").data.metadataUri
                         /\ result[i].mint = request[i].mint
                         /\ \A j \in Invs \ {i} :
                                kind[j] = "deploy" /\ Called(j, "build")
                                    => request[j].mint # result[i].mint)
    /\ [][\A i \in Invs :
            (calls'[i] = calls[i] /\ outcomes'[i] = outcomes[i]) => Local(i)' = Local(i)]_vars

\* Two overlapping deploys, both successful, whose uploads returned different
\* URIs and whose broadcasts were accepted in the opposite order of their
\* mint generation.
C21_Witness ==
    \E i, j \in Invs :
        /\ i # j
        /\ kind[i] = "deploy" /\ kind[j] = "deploy"
        /\ pc[i] = "Succeeded" /\ pc[j] = "Succeeded"
        /\ result[i].metadataUri # result[j].metadataUri
        /\ mintKeypair[i] < mintKeypair[j]
        /\ ledger[1].inv = j

\* C22: provided every external call eventually returns or throws, every
\* invocation of deploy, buy or sell eventually ends in exactly one of
\* Succeeded or Failed and hands the caller a result object whose success
\* flag says which; once there, the invocation performs no further stage and
\* its result never changes.
C22_Terminates ==
    /\ \A i \in Invs : (pc[i] # "Idle") ~> Done(i)
    /\ [](\A i \in Invs :
            Done(i) => /\ ~escaped[i]
                       /\ result[i] # NoResult
                       /\ result[i].success = (pc[i] = "Succeeded"))
    /\ [][\A i \in Invs : Done(i) => Local(i)' = Local(i)]_vars

\* One invocation ended in Failed after its confirmation threw, the other in
\* Succeeded, both after all four stages replied.
C22_Witness ==
    \E i, j \in Invs :
        /\ kind[i] = "deploy" /\ pc[i] = "Failed" /\ ConfirmThrew(i)
        /\ kind[j] = "deploy" /\ pc[j] = "Succeeded" /\ Len(outcomes[j]) = 4

\* C23: once the node has accepted a broadcast and returned a signature, no
\* later step withdraws the transaction: every step leaves the accepted
\* transactions in place, and an invocation whose broadcast was accepted
\* still has its transaction submitted in every later state, also when its
\* confirmation threw or reported an error and it ended with success=false.
C23_SubmittedStays ==
    /\ [][IsPrefix(ledger, ledger')]_vars
    /\ [](\A i \in Invs :
            BroadcastOk(i)
            => /\ Cardinality(Submitted(i)) = 1
               /\ BroadcastSignature(i) = signature[i]
               /\ signature[i] # "")

\* A deploy that ended with success=false after its confirmation threw,
\* while its transaction is submitted.
C23_Witness ==
    \E i \in Invs :
        /\ kind[i] = "deploy" /\ pc[i] = "Failed" /\ result[i].success = FALSE
        /\ ConfirmThrew(i)
        /\ Submitted(i) # {}

\* The default the agent is configured with, if the call went through it.
ConfiguredSlippage(i) == IF via[i] = "agent" THEN config.defaultSlippage ELSE Undef

\* C24: in buy and sell requests the slippage sent to the trade-construction
\* endpoint is 10 when the caller supplies none and no configured default
\* exists, the configured default when the caller supplies none and one
\* exists, and exactly the caller's value otherwise, an explicit 0 included.
C24_TradeSlippage ==
    \A i \in Invs :
        (kind[i] \in {"buy", "sell"} /\ Called(i, "build"))
        => /\ aopts[i].slippage # Undef => request[i].slippage = aopts[i].slippage
           /\ (aopts[i].slippage = Undef /\ ConfiguredSlippage(i) = Undef)
                  => request[i].slippage = Num(10)
           /\ (aopts[i].slippage = Undef /\ ConfiguredSlippage(i) # Undef)
                  => request[i].slippage = ConfiguredSlippage(i)

\* A sell called with an explicit slippage of 0, which is sent as 0.
C24_Witness ==
    \E i \in Invs :
        /\ kind[i] = "sell" /\ Called(i, "build")
        /\ aopts[i].slippage = Num(0)
        /\ request[i].slippage = Num(0)

\* C25: every trade-construction request carries the wallet's public address
\* as publicKey, priorityFee 0.0005 and pool "pump"; its action is "create"
\* for deploy, "buy" for buy and "sell" for sell; denominatedInSol is "true"
\* for create and buy and "false" for sell; tokenMetadata {name, symbol, uri}
\* is present on create only.
C25_RequestFields ==
    \A i \in Invs :
        Called(i, "build")
        => /\ request[i].publicKey = WalletAddress
           /\ request[i].priorityFee = "0.0005"
           /\ request[i].pool = "pump"
           /\ request[i].action = (IF kind[i] = "deploy" THEN "create" ELSE kind[i])
           /\ request[i].action \in {"create", "buy", "sell"}
           /\ request[i].denominatedInSol = (IF kind[i] = "sell" THEN "false" ELSE "true")
           /\ Present(request[i], "tokenMetadata") <=> kind[i] = "deploy"
           /\ kind[i] = "deploy"
                  => /\ DOMAIN request[i].tokenMetadata = {"name", "symbol", "uri"}
                     /\ request[i].tokenMetadata.name = opts[i].metadata.name
                     /\ request[i].tokenMetadata.symbol = opts[i].metadata.symbol
           /\ Present(request[i], "mint") /\ Present(request[i], "amount")
           /\ Present(request[i], "slippage")

\* A create, and a sell, have both been requested.
C25_Witness ==
    \E i, j \in Invs :
        /\ kind[i] = "deploy" /\ Called(i, "build") /\ request[i].action = "create"
        /\ kind[j] = "sell" /\ Called(j, "build") /\ request[j].denominatedInSol = "false"

\* The request of invocation i was sent whatever its amount: at once for buy
\* and sell, and as soon as the upload succeeded for deploy.
RequestSent(i) ==
    /\ kind[i] \in {"buy", "sell"} => Called(i, "build")
    /\ (kind[i] = "deploy" /\ UploadOk(i)) => Called(i, "build")

Awaiting(i) == pc[i] \in {"Uploading", "Building", "Broadcasting", "Confirming"}

\* C27: when a buy and a sell for the same mint overlap, nothing in the
\* client orders them: whenever both have a signed transaction awaiting the
\* node, either broadcast may be accepted next, whatever the other call has
\* done and whichever was issued first; more generally every pending reply
\* can be delivered, and a new buy or sell can be issued, in every state of
\* the other invocations.
C27_NoOrdering ==
    /\ \A i, j \in Invs :
           (/\ kind[i] = "buy" /\ kind[j] = "sell"
            /\ request[i].mint = request[j].mint
            /\ pc[i] = "Broadcasting" /\ pc[j] = "Broadcasting")
           => /\ ENABLED BroadcastReturn(i, [t |-> "reply"])
              /\ ENABLED BroadcastReturn(j, [t |-> "reply"])
    /\ \A i \in Invs : Awaiting(i) => ENABLED Replies(i)
    /\ \A i \in Invs :
           (instance = "ready" /\ pc[i] = "Idle")
           => \A m \in TargetMints : /\ ENABLED Buy(i, m, Num(1), Undef)
                                     /\ ENABLED Sell(i, m, Num(1), Undef)

\* A buy and a sell for the same mint overlapped and the node accepted the
\* sell before the buy.
C27_Witness ==
    \E i, j \in Invs :
        /\ kind[i] = "buy" /\ kind[j] = "sell"
        /\ request[i].mint = request[j].mint
        /\ Len(ledger) = 2
        /\ ledger[1].inv = j /\ ledger[2].inv = i

\* C28: uploadMetadata returns exactly the metadataUri of the upload response
\* when it is present, and fails when it is missing or empty; in deploy that
\* same URI is sent as tokenMetadata.uri in the create request and reported
\* as metadataUri in the success result.
C28_UploadedUriUsed ==
    \A i \in Invs :
        (HeardFrom(i, "upload") /\ OutcomeOf(i, "upload").t = "reply")
        => LET data == OutcomeOf(i, "upload").data
           IN  IF Present(data, "metadataUri") /\ data.metadataUri # ""
               THEN /\ Called(i, "build")
                    /\ request[i].tokenMetadata.uri = data.metadataUri
                    /\ pc[i] = "Succeeded" => result[i].metadataUri = data.metadataUri
               ELSE /\ pc[i] = "Failed"
                    /\ result[i] = [success |-> FALSE,
                                    error |-> "Failed to upload metadata to IPFS"]
                    /\ request[i] = NoRequest

\* Two successful deploys whose uploads returned different URIs.
C28_Witness ==
    \E i, j \in Invs :
        /\ kind[i] = "deploy" /\ kind[j] = "deploy"
        /\ pc[i] = "Succeeded" /\ result[i].metadataUri = "ipfs://a"
        /\ request[i].tokenMetadata.uri = "ipfs://a"
        /\ pc[j] = "Succeeded" /\ result[j].metadataUri = "ipfs://b"

\* The deploys whose upload succeeded.
Uploaded == {i \in Invs : kind[i] = "deploy" /\ UploadOk(i)}

\* C29: in every successful deploy one and the same mint identity is the
\* mint field of the create request, the second signer of the transaction,
\* the mint field of the result and the suffix of pumpUrl; and no mint
\* identity is generated in an invocation whose upload failed.
C29_OneMintEverywhere ==
    /\ \A i \in Invs :
           (kind[i] = "deploy" /\ pc[i] = "Succeeded")
           => /\ Len(signers[i]) = 2
              /\ signers[i][2] = request[i].mint
              /\ result[i].mint = request[i].mint
              /\ result[i].pumpUrl = "https://pump.fun/" \o request[i].mint
              /\ request[i].mint # ""
              /\ request[i].mint # WalletAddress
    /\ \A i \in Invs : UploadFailed(i) => mintKeypair[i] = 0
    /\ nextMint = Cardinality(Uploaded)

\* One deploy succeeded and another failed at its upload, generating no mint.
C29_Witness ==
    \E i, j \in Invs :
        /\ kind[i] = "deploy" /\ pc[i] = "Succeeded"
        /\ UploadFailed(j) /\ pc[j] = "Failed"
        /\ nextMint = 1

\* The value the failing stage of invocation i threw is not an Error object.
FailedWithNonError(i) ==
    /\ pc[i] = "Failed"
    /\ outcomes[i] # <<>>
    /\ LastOutcome(i).out.t = "throw"
    /\ ~LastOutcome(i).out.err.isError

\* C30: when a stage of deploy, buy or sell throws a value that is not an
\* Error object, the returned failure result has error "Unknown error"; when
\* it throws an Error, the result's error is that Error's message.
C30_UnknownError ==
    \A i \in Invs :
        /\ FailedWithNonError(i)
               => /\ ~escaped[i]
                  /\ result[i] = [success |-> FALSE, error |-> "Unknown error"]
        /\ (pc[i] = "Failed" /\ outcomes[i] # <<>> /\ LastOutcome(i).out.t = "throw"
                /\ LastOutcome(i).out.err.isError)
               => /\ ~escaped[i]
                  /\ result[i] = [success |-> FALSE,
                                  error |-> LastOutcome(i).out.err.message]

\* A sell whose broadcast threw a non-Error value, and a deploy whose upload
\* threw an Error.
C30_Witness ==
    \E i, j \in Invs :
        /\ kind[i] = "sell" /\ FailedWithNonError(i) /\ LastOutcome(i).stage = "broadcast"
        /\ result[i].error = "Unknown error"
        /\ kind[j] = "deploy" /\ pc[j] = "Failed" /\ LastOutcome(j).stage = "upload"
        /\ result[j].error = "Request failed with status code 500"

\* C31: after construction no sequence of deploy, buy and sell calls,
\* succeeding or failing, sequential or interleaved, changes the client's
\* wallet identity: getPublicKey returns the same address throughout and
\* that address is the publicKey of every build request; deploy also leaves
\* the TokenMetadata it was called with unchanged.
C31_WalletNeverChanges ==
    /\ [][/\ wallet' = wallet
          /\ getPublicKey' = getPublicKey
          /\ \A i \in Invs : kind[i] # "none" => opts'[i] = opts[i]]_vars
    /\ [](instance = "ready" => getPublicKey = WalletAddress)
    /\ [](\A i \in Invs : Called(i, "build") => request[i].publicKey = WalletAddress)

\* A failed deploy and a successful sell have both finished, a keypair has
\* been generated, and the wallet address is the one derived at construction.
C31_Witness ==
    \E i, j \in Invs :
        /\ kind[i] = "deploy" /\ pc[i] = "Failed" /\ Called(i, "sign")
        /\ kind[j] = "sell" /\ pc[j] = "Succeeded"
        /\ nextMint > 0
        /\ getPublicKey = WalletAddress
        /\ opts[i].metadata = Metadata1

\* The image API failed: the call threw, or the response has no image data.
GenerateFailed ==
    /\ genOutcome # NoOutcome
    /\ \/ genOutcome.t = "throw"
       \/ ~Present(genOutcome, "data")
       \/ ~Present(genOutcome.data, "b64_json")
       \/ genOutcome.data.b64_json = ""

\* C32: TurnipAgent.launch never throws and runs generate, then deploy: if
\* image generation fails, no upload, build, sign or broadcast is invoked
\* and the result is a failure; if the deployment fails after generation
\* succeeded, the result is a failure carrying the deployment's error
\* message, with neither the image nor the token field; on success the
\* token's mint, signature and pumpUrl are those of the deployment result.
C32_LaunchGenerateThenDeploy ==
    /\ ~lescaped
    /\ IsPrefix(lcalls, <<"generate", "deploy">>)
    /\ calls[1] # <<>> => (lcalls = <<"generate", "deploy">> /\ ~GenerateFailed
                             /\ genOutcome # NoOutcome)
    /\ GenerateFailed
           => /\ lpc = "Returned"
              /\ calls[1] = <<>> /\ request[1] = NoRequest /\ ledger = <<>>
              /\ DOMAIN lresult = {"success", "error"}
              /\ lresult.success = FALSE
    /\ (lpc = "Returned" /\ ~GenerateFailed /\ pc[1] = "Failed")
           => lresult = [success |-> FALSE, error |-> result[1].error]
    /\ (lpc = "Returned" /\ pc[1] = "Succeeded")
           => /\ lresult.success = TRUE
              /\ ~Present(lresult, "error")
              /\ lresult.token.mint = result[1].mint
              /\ lresult.token.signature = result[1].signature
              /\ lresult.token.pumpUrl = result[1].pumpUrl
              /\ lresult.image.ipfsUrl = result[1].metadataUri
    /\ lpc = "Returned" => (GenerateFailed \/ pc[1] \in {"Succeeded", "Failed"})

\* A launch whose image was generated and whose deployment then failed at
\* the broadcast: the result carries the broadcast's message and no image.
C32_Witness ==
    /\ lpc = "Returned"
    /\ genOutcome.t = "reply" /\ ~GenerateFailed
    /\ image # NoImage
    /\ BroadcastFailed(1)
    /\ lresult = [success |-> FALSE, error |-> "failed to send transaction"]

\* The first of the caller's value and the configured value that is a number,
\* and otherwise the built-in default d.
Precedence(given, configured, d) ==
    IF given.k = "number" THEN given
    ELSE IF given = Undef /\ configured.k = "number" THEN configured
    ELSE d

\* C33: for deploy, buy and sell issued through TurnipAgent, the slippage in
\* the trade-construction request is the caller's number if one was supplied
\* (0 included), otherwise the configured defaultSlippage if one is set (0
\* included), otherwise 10; the create amount is the caller's devBuyAmount if
\* supplied, otherwise the configured devBuyAmount, otherwise 0.  (Stated for
\* numbers and omitted values; NaN is left aside.)
C33_AgentPrecedence ==
    \A i \in Invs :
        (via[i] = "agent" /\ Called(i, "build")
            /\ aopts[i].slippage # NaN /\ config.defaultSlippage # NaN)
        => /\ request[i].slippage =
                  Precedence(aopts[i].slippage, config.defaultSlippage, Num(10))
           /\ (kind[i] = "deploy" /\ aopts[i].devBuyAmount # NaN
                   /\ config.devBuyAmount # NaN)
                  => request[i].amount =
                         Precedence(aopts[i].devBuyAmount, config.devBuyAmount, Num(0))

\* C34: the 'file' part holds the caller's bytes unchanged when the image
\* was given as bytes; when it was given as the base64 string of some bytes,
\* padded or not, the part holds exactly those bytes.  Hence both forms of
\* one image put identical bytes in the payload.
C34_ImageBytes ==
    formData.appended =>
        /\ formData.image.t = "buffer" => formData.file = formData.image.bytes
        /\ formData.image.t = "string" =>
              /\ formData.image.chars \in {Base64Encode(formData.image.of),
                                           Unpadded(Base64Encode(formData.image.of))}
              /\ formData.file = formData.image.of

\* A padded base64 string of a four-byte image was decoded.
C34_ImageBytes_Witness ==
    /\ formData.appended
    /\ formData.image.t = "string"
    /\ Len(formData.image.chars) = 8
    /\ formData.image.chars[8] = "="
    /\ formData.file = <<255, 128, 1, 0>>

\* C35: healthCheck never throws; the record it returns has wallet = true
\* only with helius = true and balance > 0; when the node answered the
\* health probe but the balance lookup threw, helius is false; and the
\* OpenAI probe was made whatever the Helius probe gave.
C35_HealthCheck ==
    /\ ~health.escaped
    /\ health.pc = "Returned" =>
        /\ DOMAIN health.result = {"openai", "helius", "wallet", "balance"}
        /\ health.result.wallet =>
              health.result.helius /\ Positive(health.result.balance)
        /\ (Len(health.replies) = 3 /\ health.replies[2].t = "throw") =>
              ~health.result.helius
        /\ health.calls[Len(health.calls)] = "enhancePrompt"
        /\ health.result.openai = (health.replies[Len(health.replies)].t = "reply")

\* The node was healthy, the balance lookup threw, and healthCheck returned
\* with the OpenAI probe answered.
C35_HealthCheck_Witness ==
    /\ health.pc = "Returned"
    /\ health.calls = <<"getVersion", "getBalance", "enhancePrompt">>
    /\ health.replies[1].t = "reply"
    /\ health.replies[2].t = "throw"
    /\ health.result.openai

\* C36: while the last call made on the dashboard is stop(), no step begins
\* a render from a timer tick, whatever starts and stops came before (two
\* starts before the stop, or a stop during the first render, included).
C36_NoRenderAfterStop ==
    [][(dash.lastCall = "stop" /\ dash'.lastCall = "stop")
          => InProgress(dash', "tick") <= InProgress(dash, "tick")]_vars

\* After two starts and a stop a timer is still live, and its tick found
\* the dashboard stopped.
C36_NoRenderAfterStop_Witness ==
    /\ dash.lastCall = "stop"
    /\ dash.starts = 2
    /\ dash.timers # {}
    /\ dash.skipped
    /\ ~dash.exited

\* C37: already with a single call of start(), at most one render is in
\* progress at any time.
C37_OneRenderAtATime ==
    dash.starts <= 1 =>
        InProgress(dash, "start") + InProgress(dash, "tick") <= 1

\* C38: analyzeTrade never throws, and the decision it returns has an
\* action among BUY, SELL, HOLD and a confidence that is a number in
\* 0..100; after a failure (request error, no content, unparsable content)
\* the decision is HOLD with confidence 0.
C38_DecisionSanitized ==
    /\ ~strategy.escaped
    /\ strategy.pc = "Returned" =>
        /\ strategy.result.action \in Actions
        /\ strategy.result.confidence.k = "number"
        /\ strategy.result.confidence.v \in 0..100
        /\ (strategy.reply.t = "throw"
              \/ (strategy.reply.t = "reply"
                    /\ strategy.reply.content.t \in {"none", "text"}))
             => strategy.result.action = "HOLD" /\ strategy.result.confidence = Num(0)

\* C39: closePosition sends at most one order, and exactly one when it
\* returns; the order is reduce-only, a buy exactly when the position is
\* short, of the absolute size of the position, and sent only after the
\* position and the market data were found.  With no position for the coin
\* or no market data closePosition throws and sends nothing.  placeOrder
\* for a coin outside the asset list throws and sends nothing.
C39_CloseOnce ==
    LET at == FindPosition(trader.positions, trader.coin)
        szi == ParseFloat(trader.positions[at].szi)
    IN /\ Len(trader.sent) <= 1
       /\ (trader.op = "close" /\ trader.pc = "Returned") => Len(trader.sent) = 1
       /\ (trader.op = "close" /\ Len(trader.sent) = 1) =>
            /\ at # 0
            /\ trader.marketData.t = "data"
            /\ trader.sent[1].r
            /\ trader.sent[1].b = (szi.num < 0)
            /\ ParseFloat(trader.sent[1].s) = Reduced(MathAbs(szi))
            /\ trader.sent[1].a = AssetIndex(trader.coin)
       /\ (trader.op = "close" /\ trader.pc \in {"Returned", "Thrown"}
              /\ (at = 0 \/ trader.marketData.t # "data")) =>
            trader.pc = "Thrown" /\ trader.sent = <<>>
       /\ (trader.op = "order" /\ \A i \in DOMAIN Assets : Assets[i] # trader.coin) =>
            trader.pc = "Thrown" /\ trader.sent = <<>>

\* A short position of 10.05 was closed by one reduce-only buy of "10.05".
C39_CloseOnce_Witness ==
    /\ trader.op = "close"
    /\ trader.pc = "Returned"
    /\ Len(trader.sent) = 1
    /\ trader.sent[1].b
    /\ trader.sent[1].r
    /\ trader.sent[1].s = <<"1", "0", ".", "0", "5">>
    /\ trader.positions[FindPosition(trader.positions, trader.coin)].szi
           = <<"-", "1", "0", ".", "0", "5">>

====
